---- MODULE Spec2Model ----
(***************************************************************************)
(* A model of zigbee-faker: the seeded random stream (src/src/rng.ts), the *)
(* relationship table and the topology generator of the Zigbee2MQTT faker  *)
(* (src/src/zigbee2mqtt.ts), and the snapshot assembler built on them.     *)
(*                                                                         *)
(* The random stream is modelled at two levels.  SpecRng runs the real     *)
(* mulberry32 mixing function on 32-bit words.  The generators built on    *)
(* the stream (Spec, SpecGroups, SpecMap, SpecRel) take every draw as a    *)
(* choice among the values the call can return.                            *)
(***************************************************************************)
EXTENDS Integers, Sequences, FiniteSets, TLC

VARIABLES
    rngSeed,      \* SpecRng: the seed both generators were constructed with
    rngScript,    \* SpecRng: the sequence of calls made on each generator
    rngT,         \* SpecRng: instance -> the closure variable t of mulberry32
    rngOut,       \* SpecRng: instance -> the results returned so far
    relA,         \* argument a of the last call of relationshipByType (the link source)
    relB,         \* argument b of the last call of relationshipByType (the neighbour)
    relR,         \* the position of the stream r before that call
    relRes,       \* the outcome of that call, NoCall before any call
    pc,           \* the statement the faker is at
    entry,        \* the method the caller invoked: "snapshot", "networkMap", "devices"
    catalog,      \* zhcDefinitions, the catalog prepared at load
    deviceCount,  \* snapshot's argument deviceCount
    groupCount,   \* snapshot's argument groupCount
    coordinator,  \* the device returned by coordinator()
    devices,      \* the list built by devices()
    uniqueGroupMembers, \* groups(): indices into devices, first occurrences only
    groups,       \* the list built by groups()
    info,         \* the bridge/info payload (its coordinator part)
    routes,       \* networkMap's argument routes
    nodes,        \* networkMap: the node list
    links,        \* networkMap: the link list
    i,            \* networkMap: index of the source node a (0-based)
    j,            \* networkMap: number of links made from a
    bIdx,         \* networkMap: index of the candidate target b (0-based)
    prevBIdxs,    \* networkMap: the targets already linked from a
    result,       \* what the invoked method returned, NoResult before it returns
    callFn,       \* the function called on its own, "none" when a method runs
    callArgs,     \* the arguments of that call (with the draws it is to make)
    callRes       \* what that call returned or threw, NoCall before it

rngVars == <<rngSeed, rngScript, rngT, rngOut>>

relVars == <<relA, relB, relR, relRes>>

inputVars == <<entry, catalog, deviceCount, groupCount, routes>>

entityVars == <<coordinator, devices, uniqueGroupMembers, groups, info>>

mapVars == <<nodes, links, i, j, bIdx, prevBIdxs>>

fakerVars == <<pc, inputVars, entityVars, mapVars, result>>

callVars == <<callFn, callArgs, callRes>>

vars == <<rngVars, relVars, fakerVars, callVars>>

(***************************************************************************)
(* 32-bit words.  A word is the pair <<hi, lo>> of its 16-bit halves, so   *)
(* that no intermediate value leaves the integers TLC computes with.       *)
(***************************************************************************)
W16 == 2 ^ 16

U32(hi, lo) == <<hi, lo>>

Hi(w) == w[1]

Lo(w) == w[2]

RECURSIVE Xor16(_, _, _)
\* a XOR b on n-bit halves
Xor16(a, b, n) ==
    IF n = 0 THEN 0
    ELSE ((a + b) % 2) + 2 * Xor16(a \div 2, b \div 2, n - 1)

RECURSIVE Or16(_, _, _)
\* a OR b on n-bit halves
Or16(a, b, n) ==
    IF n = 0 THEN 0
    ELSE (IF a % 2 = 1 \/ b % 2 = 1 THEN 1 ELSE 0) + 2 * Or16(a \div 2, b \div 2, n - 1)

\* x ^ y
Xor32(x, y) == U32(Xor16(Hi(x), Hi(y), 16), Xor16(Lo(x), Lo(y), 16))

\* x | c for a constant c below 2^16
OrLow(x, c) == U32(Hi(x), Or16(Lo(x), c, 16))

\* (x + y) | 0, as a 32-bit pattern
Add32(x, y) ==
    LET lo == Lo(x) + Lo(y)
    IN  U32((Hi(x) + Hi(y) + lo \div W16) % W16, lo % W16)

Pow2(n) == 2 ^ n

\* x >>> s for 0 < s < 16
Shr32(x, s) ==
    U32(Hi(x) \div Pow2(s), (Hi(x) % Pow2(s)) * Pow2(16 - s) + Lo(x) \div Pow2(s))

\* Math.imul(x, y): the low 32 bits of the product, from the bytes of x and y
Imul(x, y) ==
    LET a0 == Lo(x) % 256
        a1 == Lo(x) \div 256
        a2 == Hi(x) % 256
        a3 == Hi(x) \div 256
        b0 == Lo(y) % 256
        b1 == Lo(y) \div 256
        b2 == Hi(y) % 256
        b3 == Hi(y) \div 256
        c0 == a0 * b0
        c1 == a0 * b1 + a1 * b0
        c2 == a0 * b2 + a1 * b1 + a2 * b0
        c3 == a0 * b3 + a1 * b2 + a2 * b1 + a3 * b0
        lo == c0 + (c1 % 256) * 256
    IN  U32((lo \div W16 + c1 \div 256 + c2 + (c3 % 256) * 256) % W16, lo % W16)

\* floor(k * d / 2^32) and (k * d) mod 2^32 for a word k and 0 <= d < 2^16
MulShift(k, d) ==
    LET d0 == d % 256
        d1 == d \div 256
        p0 == Lo(k) * d0
        p1 == Lo(k) * d1
        q0 == Hi(k) * d0
        q1 == Hi(k) * d1
        l == p0 + (p1 % 256) * 256
        m == l \div W16 + p1 \div 256 + q0 + (q1 % 256) * 256
    IN  [int |-> m \div W16 + q1 \div 256, frac |-> U32(m % W16, l % W16)]

(***************************************************************************)
(* src/src/rng.ts                                                          *)
(***************************************************************************)
\* 0x6d2b79f5
Golden == U32(27947, 31221)

\* mulberry32(seed): the closure's variable t after `let t = seed >>> 0`
mulberry32(seed) == seed

\* One call of the closure: t is advanced, and the numerator k of the
\* returned float k / 4294967296 is computed from the new t.
next(t) ==
    LET t1 == Add32(t, Golden)
        r1 == Imul(Xor32(t1, Shr32(t1, 15)), OrLow(t1, 1))
        r2 == Xor32(r1, Add32(r1, Imul(Xor32(r1, Shr32(r1, 7)), OrLow(r1, 61))))
    IN  [t |-> t1, k |-> Xor32(r2, Shr32(r2, 14))]

\* Rng.int(min, max): Math.floor(next() * (max - min + 1)) + min
Rng_int(t, min, max) ==
    LET n == next(t)
    IN  [t |-> n.t, ok |-> TRUE, v |-> MulShift(n.k, max - min + 1).int + min]

\* Rng.float(min, max): next() * (max - min) + min, as integer part and
\* the numerator of the fraction over 2^32
Rng_float(t, min, max) ==
    LET n == next(t)
        m == MulShift(n.k, max - min)
    IN  [t |-> n.t, ok |-> TRUE, v |-> <<m.int + min, m.frac>>]

\* Rng.bool(p) for p = pn / pd: next() < p
Rng_bool(t, pn, pd) ==
    LET n == next(t)
    IN  [t |-> n.t, ok |-> TRUE, v |-> MulShift(n.k, pd).int < pn]

\* Rng.pick(arr) drawing the index before it looks at the length
Rng_pick_drawFirst(t, arr) ==
    LET d == Rng_int(t, 0, Len(arr) - 1)
    IN  IF Len(arr) = 0
        THEN [t |-> d.t, ok |-> FALSE, v |-> "Cannot pick from an empty array"]
        ELSE [t |-> d.t, ok |-> TRUE, v |-> arr[d.v + 1]]

\* Rng.pick(arr): throws on an empty array before any draw
Rng_pick(t, arr) ==
    IF Len(arr) = 0
    THEN [t |-> t, ok |-> FALSE, v |-> "Cannot pick from an empty array"]
    ELSE LET d == Rng_int(t, 0, Len(arr) - 1)
         IN  [t |-> d.t, ok |-> TRUE, v |-> arr[d.v + 1]]

HexDigits == <<"0", "1", "2", "3", "4", "5", "6", "7", "8", "9", "a", "b", "c", "d", "e", "f">>

RECURSIVE HexLoop(_, _, _)
HexLoop(t, len, out) ==
    IF len = 0 THEN [t |-> t, ok |-> TRUE, v |-> out]
    ELSE LET d == Rng_int(t, 0, 15)
         IN  IF d.ok THEN HexLoop(d.t, len - 1, out \o <<HexDigits[d.v + 1]>>) ELSE d

\* Rng.hex(len): len successive digit draws
Rng_hex(t, len) == HexLoop(t, len, <<>>)

(***************************************************************************)
(* The stream as the generators see it.  A stream r is the number of draws *)
(* made from it so far; a call on it yields the set of its outcomes, each  *)
(* with the value returned (or the error thrown) and the stream after it.  *)
(***************************************************************************)
Ret(r, v) == [ok |-> TRUE, v |-> v, r |-> r]

Throw(r, msg) == [ok |-> FALSE, v |-> msg, r |-> r]

\* r.bool(p) with 0 < p < 1: one draw, either answer
DrawBool(r) == {Ret(r + 1, x) : x \in BOOLEAN}

\* r.pick(arr): throws on an empty array, else one draw and any element
DrawPick(r, arr) ==
    IF Len(arr) = 0
    THEN {Throw(r, "Cannot pick from an empty array")}
    ELSE {Ret(r + 1, arr[n]) : n \in 1..Len(arr)}

(***************************************************************************)
(* src/src/zigbee.ts                                                       *)
(***************************************************************************)
NeighborIsParent == 0

NeighborIsAChild == 1

NeighborIsASibling == 2

NoneOfTheAbove == 3

NeighborIsPreviousChild == 4

\* relationship with every code of the enumeration in place of the limited set
relationship_all(r, limitedSet) ==
    DrawPick(r, <<NeighborIsParent, NeighborIsAChild, NeighborIsASibling, NoneOfTheAbove,
                  NeighborIsPreviousChild>>)

\* relationship(r, limitedSet) with a limited set given
relationship(r, limitedSet) == DrawPick(r, limitedSet)

(***************************************************************************)
(* src/src/zigbee2mqtt.ts: relationshipByType                              *)
(***************************************************************************)
\* RelationshipType: the device types that are nodes of the mesh
RelationshipType == {"Coordinator", "Router", "EndDevice", "Unknown"}

\* r.bool(0.75) ? NeighborIsASibling : relationship(r, other)
SiblingOr(r, other) ==
    UNION {IF x.v THEN {Ret(x.r, NeighborIsASibling)} ELSE relationship(x.r, other) :
           x \in DrawBool(r)}

\* RelEndDevice with the Unknown neighbour taken for the child
RelEndDevice_swapped(r, b) ==
    IF b = "EndDevice"
    THEN {Throw(r, "Cannot have a relationship EndDevice<>EndDevice")}
    ELSE {Ret(r, NeighborIsAChild)}

\* The branch of relationshipByType for a = EndDevice (b is EndDevice or Unknown)
RelEndDevice(r, b) ==
    IF b = "EndDevice"
    THEN {Throw(r, "Cannot have a relationship EndDevice<>EndDevice")}
    ELSE {Ret(r, NeighborIsParent)}

\* RelCoordinator without the test of b = Coordinator
RelCoordinator_nothrow(r, b) ==
    IF b = "Router" \/ b = "Coordinator"
    THEN SiblingOr(r, <<NeighborIsAChild, NeighborIsASibling>>)
    ELSE {Ret(r, NeighborIsAChild)}

\* The branch of relationshipByType for a = Coordinator
RelCoordinator(r, b) ==
    IF b = "Coordinator"
    THEN {Throw(r, "Cannot have a relationship Coordinator<>Coordinator")}
    ELSE IF b = "Router"
         THEN SiblingOr(r, <<NeighborIsAChild, NeighborIsASibling>>)
         ELSE {Ret(r, NeighborIsAChild)}

\* RelRouter with the neighbour of a Router taken for its parent
RelRouter_swapped(r, b) ==
    IF b = "Router"
    THEN SiblingOr(r, <<NeighborIsParent, NeighborIsASibling>>)
    ELSE {Ret(r, NeighborIsParent)}

\* The branch of relationshipByType for a = Router and b not the coordinator
RelRouter(r, b) ==
    IF b = "Router"
    THEN SiblingOr(r, <<NeighborIsParent, NeighborIsASibling>>)
    ELSE {Ret(r, NeighborIsAChild)}

\* relationshipByType(r, a, b): the outcomes of the call on stream r
relationshipByType(r, a, b) ==
    IF a = "Coordinator" THEN RelCoordinator(r, b)
    ELSE IF b = "Coordinator"
    THEN (IF a = "Router"
          THEN relationship(r, <<NeighborIsParent, NeighborIsASibling>>)
          ELSE {Ret(r, NeighborIsParent)})
    ELSE IF a = "Router" THEN RelRouter(r, b)
    ELSE IF b = "Router" THEN {Ret(r, NeighborIsParent)}
    ELSE IF a = "EndDevice" THEN RelEndDevice(r, b)
    ELSE IF b = "EndDevice" THEN {Ret(r, NeighborIsAChild)}
    ELSE {Ret(r, NoneOfTheAbove)}

(***************************************************************************)
(* Draws of the generators.  A draw over a wide range is taken at the two  *)
(* ends of the range; a draw that decides control flow (a count, an index) *)
(* is taken at every value.                                                *)
(***************************************************************************)
\* r.int(min, max) where the value is only stored
IntDraws(min, max) == {min, max}

\* eui64(r) with networkAddress / r.int(1, 0xfff7): the two draws of a device's
\* identity, at their low ends and at their high ends
IdentityDraws ==
    {[ieee_address |-> "0x0000000000000000", network_address |-> 1],
     [ieee_address |-> "0xffffffffffffffff", network_address |-> 65527]}

\* r.int(0x01, 0xfe): the id of a random endpoint
EpIdDraws == IntDraws(1, 254)

\* linkQuality(r) and r.int(1, 3): a link's quality and depth
LinkAttrDraws ==
    {[linkquality |-> 30, depth |-> 1], [linkquality |-> 255, depth |-> 3]}

(***************************************************************************)
(* src/src/zigbee2mqtt.ts: the catalog                                     *)
(***************************************************************************)
HA_ENDPOINT == 1

GP_ENDPOINT == 242

NoResolver == [has |-> FALSE, map |-> <<>>]

Resolver(map) == [has |-> TRUE, map |-> map]

\* A catalog of two definitions: a mains device without endpoint resolver and a
\* green-power device (fingerprint modelID "GreenPower_...")
SmallCatalog ==
    <<[model |-> "M1", vendor |-> "V1", gp |-> FALSE, endpoint |-> NoResolver],
      [model |-> "GP1", vendor |-> "V2", gp |-> TRUE, endpoint |-> NoResolver]>>

\* zhcDefinitions
zhcDefinitions(cat) == cat

\* zhcGpDefinitions: the definitions with a GreenPower_ fingerprint, in order
zhcGpDefinitions(cat) == SelectSeq(cat, LAMBDA d : d.gp)

Elements(seq) == {seq[n] : n \in 1..Len(seq)}

\* deviceType(r): "Coordinator" is not among the picks
deviceType == {"Router", "EndDevice", "Unknown", "GreenPower"}

\* definitionEndpoints(r, definition): the resolver's map, or undefined
definitionEndpoints(def) == def.endpoint

\* endpoints(r, ensurePresent) with epCount drawn from 0 on in all cases
endpoints_fromZero(ensurePresent) ==
    LET fixed == IF ensurePresent.has
                 THEN {ensurePresent.map[n] : n \in DOMAIN ensurePresent.map}
                 ELSE {}
        epMaxCount == IF fixed # {} THEN 1 ELSE 3
    IN  {fixed \cup extra :
           extra \in {S \in SUBSET (EpIdDraws \ fixed) : Cardinality(S) \in 0..epMaxCount}}

\* endpoints(r, ensurePresent): the sets of endpoint ids the call can return
endpoints(ensurePresent) ==
    LET fixed == IF ensurePresent.has
                 THEN {ensurePresent.map[n] : n \in DOMAIN ensurePresent.map}
                 ELSE {}
        epMaxCount == IF fixed # {} THEN 1 ELSE 3
        epCounts == (IF epMaxCount = 1 THEN 0 ELSE 1)..epMaxCount
    IN  {fixed \cup extra :
           extra \in {S \in SUBSET (EpIdDraws \ fixed) : Cardinality(S) \in epCounts}}

NoDevice ==
    [ieee_address |-> "", type |-> "none", network_address |-> -1,
     friendly_name |-> "", model_id |-> "", manufacturer |-> "", endpoints |-> {}]

\* coordinator(): the devices the call can return
coordinatorDevices ==
    {[ieee_address |-> id.ieee_address, type |-> "Coordinator", network_address |-> 0,
      friendly_name |-> "Coordinator", model_id |-> "", manufacturer |-> "",
      endpoints |-> eps] :
       id \in IdentityDraws,
       eps \in endpoints(Resolver([rnd_1 |-> HA_ENDPOINT, rnd_2 |-> GP_ENDPOINT]))}

\* friendlyName(): word, separator, four digits, separator, word
friendlyName == {"alpha_1000_alpha"}

\* definitionEndpoints(r, def) ?? (r.bool(0.95) ? {rnd_1: HA_ENDPOINT} : undefined)
ensurePresentOf(def) ==
    IF definitionEndpoints(def).has
    THEN {definitionEndpoints(def)}
    ELSE {Resolver([rnd_1 |-> HA_ENDPOINT]), NoResolver}

\* this.r.pick(typeOrR === "GreenPower" ? zhcGpDefinitions : zhcDefinitions)
definitionsFor(cat, typeOrR) ==
    Elements(IF typeOrR = "GreenPower" THEN zhcGpDefinitions(cat) ELSE zhcDefinitions(cat))

\* device(type) with the definition def picked: the devices the call can return
deviceOf(typeOrR, def) ==
    {[ieee_address |-> id.ieee_address, type |-> typeOrR,
      network_address |-> id.network_address, friendly_name |-> fn,
      model_id |-> def.model, manufacturer |-> def.vendor, endpoints |-> eps] :
       id \in IdentityDraws, fn \in friendlyName,
       eps \in UNION {endpoints(e) : e \in ensurePresentOf(def)}}

\* device() without arguments: the devices the call can return
device(cat) ==
    UNION {UNION {deviceOf(typeOrR, def) : def \in definitionsFor(cat, typeOrR)} :
           typeOrR \in deviceType}

(***************************************************************************)
(* The parts of the state a specification does not use keep these values.  *)
(***************************************************************************)
NoCall == [ok |-> FALSE, v |-> "not called", r |-> -1]

RngIdle ==
    /\ rngSeed = <<0, 0>>
    /\ rngScript = <<>>
    /\ rngT = <<>>
    /\ rngOut = <<>>

RelIdle ==
    /\ relA = "Coordinator"
    /\ relB = "Coordinator"
    /\ relR = 0
    /\ relRes = NoCall

CallIdle ==
    /\ callFn = "none"
    /\ callArgs = <<>>
    /\ callRes = NoCall

NoInfo == [coordinator |-> [ieee_address |-> ""]]

NoResult == [returned |-> FALSE]

\* The state of a faker before any of its methods has run
FakerFresh ==
    /\ coordinator = NoDevice
    /\ devices = <<>>
    /\ uniqueGroupMembers = <<>>
    /\ groups = <<>>
    /\ info = NoInfo
    /\ nodes = <<>>
    /\ links = <<>>
    /\ i = 0
    /\ j = 0
    /\ bIdx = 0
    /\ prevBIdxs = {}
    /\ result = NoResult

FakerIdle ==
    /\ pc = "idle"
    /\ entry = "none"
    /\ catalog = <<>>
    /\ deviceCount = 0
    /\ groupCount = 0
    /\ routes = FALSE
    /\ FakerFresh

(***************************************************************************)
(* SpecRng: two generators constructed from one seed, each making the same *)
(* sequence of calls, in any interleaving.                                 *)
(***************************************************************************)
MaxCalls == 2

Instances == {1, 2}

\* A zero seed, seed 1 of the tests, and the largest 32-bit seed
Seeds == {U32(0, 0), U32(0, 1), U32(65535, 65535)}

PickPool == <<"Router", "EndDevice", "Unknown", "GreenPower">>

\* The calls of a script, each with fixed arguments
Calls == {"int", "float", "bool", "pick", "hex"}

Scripts == [1..MaxCalls -> Calls]

\* The call `c` made on a generator whose closure variable is t
Rng_call(t, c) ==
    CASE c = "int" -> Rng_int(t, 1, 65527)
      [] c = "float" -> Rng_float(t, 0, 10)
      [] c = "bool" -> Rng_bool(t, 3, 4)
      [] c = "pick" -> Rng_pick(t, PickPool)
      [] OTHER -> Rng_hex(t, 4)

\* Rng_store with one t for all instances
Rng_store_shared(ts, inst, t) == [other \in DOMAIN ts |-> t]

\* The closure variable of instance inst is written by instance inst alone.
Rng_store(ts, inst, t) == [ts EXCEPT ![inst] = t]

\* new Rng(seed), twice
InitRng ==
    /\ rngSeed \in Seeds
    /\ rngScript \in Scripts
    /\ rngT = [inst \in Instances |-> mulberry32(rngSeed)]
    /\ rngOut = [inst \in Instances |-> <<>>]
    /\ RelIdle
    /\ CallIdle
    /\ FakerIdle

\* Instance inst makes its next call.
RngCall(inst) ==
    /\ Len(rngOut[inst]) < Len(rngScript)
    /\ LET res == Rng_call(rngT[inst], rngScript[Len(rngOut[inst]) + 1])
       IN  /\ rngT' = Rng_store(rngT, inst, res.t)
           /\ rngOut' = [rngOut EXCEPT ![inst] = Append(@, res.v)]
    /\ UNCHANGED <<rngSeed, rngScript, relVars, fakerVars, callVars>>

NextRng == \E inst \in Instances : RngCall(inst)

SpecRng == InitRng /\ [][NextRng]_vars

\* C1: two generators built from the same seed return the same results call
\* by call, whatever the interleaving of their calls.
C1_SameSeedSameSequence ==
    \A n \in 1..MaxCalls :
        (n <= Len(rngOut[1]) /\ n <= Len(rngOut[2])) => rngOut[1][n] = rngOut[2][n]

\* Both generators, seeded with 1, have made the calls hex(4) then int(1, 0xfff7)
\* and returned the digits "a08f" (the first digits the tests expect of seed 1).
C1_Witness ==
    /\ rngSeed = U32(0, 1)
    /\ rngScript[1] = "hex"
    /\ rngScript[MaxCalls] = "int"
    /\ \A inst \in Instances : Len(rngOut[inst]) = MaxCalls /\ rngOut[inst][1] = <<"a", "0", "8", "f">>

(***************************************************************************)
(* SpecRel: one call of relationshipByType on every pair of node types,    *)
(* from a stream at any of the first positions.                            *)
(***************************************************************************)
MaxStreamPos == 3

InitRel ==
    /\ relA \in RelationshipType
    /\ relB \in RelationshipType
    /\ relR \in 0..MaxStreamPos
    /\ relRes = NoCall
    /\ RngIdle
    /\ FakerIdle
    /\ CallIdle

\* relationshipByType(r, a, b) is called and returns or throws.
RelCall ==
    /\ relRes = NoCall
    /\ relRes' \in relationshipByType(relR, relA, relB)
    /\ UNCHANGED <<relA, relB, relR, rngVars, fakerVars, callVars>>

NextRel == RelCall

SpecRel == InitRel /\ [][NextRel]_vars

Called == relRes # NoCall

InvalidPair(a, b) ==
    \/ a = "Coordinator" /\ b = "Coordinator"
    \/ a = "EndDevice" /\ b = "EndDevice"

LeafType(t) == t = "EndDevice" \/ t = "Unknown"

\* C8: relationshipByType throws exactly on (Coordinator, Coordinator) and
\* (EndDevice, EndDevice); on every other pair it returns one of the relationship
\* codes; a call that throws leaves the stream where it was.
C8_ThrowsExactlyOnInvalidPairs ==
    Called =>
        /\ relRes.ok = ~InvalidPair(relA, relB)
        /\ relRes.ok => relRes.v \in NeighborIsParent..NeighborIsPreviousChild
        /\ ~relRes.ok => relRes.r = relR

C8_Witness == Called /\ ~relRes.ok /\ relA = "EndDevice" /\ relR > 0

\* C9: on the fixed pairs the result is determined by the types alone and no draw
\* is made: the coordinator's or a router's EndDevice/Unknown neighbour is a child,
\* the coordinator or a router is the parent of an EndDevice/Unknown source, and
\* Unknown with Unknown is none-of-the-above.
C9_FixedPairs ==
    Called =>
        /\ (relA \in {"Coordinator", "Router"} /\ LeafType(relB))
              => relRes = Ret(relR, NeighborIsAChild)
        /\ (LeafType(relA) /\ relB \in {"Coordinator", "Router"})
              => relRes = Ret(relR, NeighborIsParent)
        /\ (relA = "Unknown" /\ relB = "Unknown") => relRes = Ret(relR, NoneOfTheAbove)

C9_Witness == Called /\ relA = "Router" /\ relB = "Unknown" /\ relR > 0

\* C10 as claimed: for a = EndDevice, b = Unknown the neighbour is a child, and for
\* a = Unknown, b = EndDevice the neighbour is the parent.
C10_EndDeviceParentOfUnknown ==
    Called =>
        /\ (relA = "EndDevice" /\ relB = "Unknown") => relRes = Ret(relR, NeighborIsAChild)
        /\ (relA = "Unknown" /\ relB = "EndDevice") => relRes = Ret(relR, NeighborIsParent)

\* C10 as the code has it: for a = EndDevice, b = Unknown the neighbour (the
\* Unknown node) is the parent, and for a = Unknown, b = EndDevice the neighbour
\* is a child; neither call makes a draw.
C10_UnknownParentOfEndDevice ==
    Called =>
        /\ (relA = "EndDevice" /\ relB = "Unknown") => relRes = Ret(relR, NeighborIsParent)
        /\ (relA = "Unknown" /\ relB = "EndDevice") => relRes = Ret(relR, NeighborIsAChild)

C10_Witness == Called /\ relA = "Unknown" /\ relB = "EndDevice" /\ relRes.ok

(***************************************************************************)
(* src/src/zigbee2mqtt.ts: Zigbee2MQTTAPIFaker                             *)
(***************************************************************************)
MaxDeviceCount == 1

MaxGroupCount == 2

MaxMapDevices == 2

MaxLinks == 2

Max(a, b) == IF a >= b THEN a ELSE b

\* The statement after which the faker is at `to`, nothing else changed
Goto(to) == pc' = to

\* coordinator(), called by snapshot
Coordinator ==
    /\ pc = "coordinator"
    /\ coordinator' \in coordinatorDevices
    /\ Goto("devices")
    /\ UNCHANGED <<inputVars, devices, uniqueGroupMembers, groups, info, mapVars, result>>

\* devices(count): one turn of the loop, list.push(this.device())
Device ==
    /\ pc = "devices"
    /\ Len(devices) < deviceCount
    /\ \E d \in device(catalog) : devices' = Append(devices, d)
    /\ UNCHANGED <<pc, inputVars, coordinator, uniqueGroupMembers, groups, info, mapVars, result>>

\* devices(count) returns: [] when count <= 0, the list after count turns
DevicesReturn ==
    /\ pc = "devices"
    /\ Len(devices) >= deviceCount
    /\ IF entry = "snapshot"
       THEN /\ Goto("groups")
            /\ UNCHANGED result
       ELSE /\ Goto("done")
            /\ result' = [returned |-> TRUE, devices |-> devices]
    /\ UNCHANGED <<inputVars, entityVars, mapVars>>

\* FirstOccurrences keeping the repetitions
FirstOccurrences_all(seq, n) == SubSeq(seq, 1, n)

RECURSIVE FirstOccurrences(_, _)
\* groupMembers.filter((m, idx) => groupMembers.indexOf(m) === idx), seq read from
\* its end; a member is the index of its device in the candidate list
FirstOccurrences(seq, n) ==
    IF n = 0 THEN <<>>
    ELSE LET before == FirstOccurrences(seq, n - 1)
         IN  IF \E k \in 1..(n - 1) : seq[k] = seq[n] THEN before ELSE Append(before, seq[n])

\* groups(count, memberCandidates), up to the Array.from of the groups: the
\* candidates picked, without repetitions
Groups ==
    /\ pc = "groups"
    /\ \E length \in 0..Max(0, Len(devices) - 1) :
         \E groupMembers \in [1..length -> 1..Len(devices)] :
            uniqueGroupMembers' = FirstOccurrences(groupMembers, length)
    /\ Goto("group")
    /\ UNCHANGED <<inputVars, coordinator, devices, groups, info, mapVars, result>>

\* The endpoint ids of a device, Object.keys(d.endpoints).map(Number), in order
RECURSIVE SetToSeq(_)
SetToSeq(S) ==
    IF S = {} THEN <<>>
    ELSE LET m == CHOOSE x \in S : \A y \in S : x <= y
         IN  <<m>> \o SetToSeq(S \ {m})

\* memberOf with the home-automation endpoint in place of the pick
memberOf_firstEndpoint(d) ==
    {[ok |-> TRUE, v |-> [ieee_address |-> d.ieee_address, endpoint |-> HA_ENDPOINT]]}

\* One member record of group(): the device's address with a pick among the
\* device's own endpoint ids
memberOf(d) ==
    {[ok |-> e.ok, v |-> [ieee_address |-> d.ieee_address, endpoint |-> e.v]] :
       e \in DrawPick(0, SetToSeq(d.endpoints))}

\* group(members): members.slice(0, r.int(0, max(0, length - 1))).map(...)
Group ==
    /\ pc = "group"
    /\ Len(groups) < groupCount
    /\ \E id \in IntDraws(1, 65534) :
         \E n \in 0..Max(0, Len(uniqueGroupMembers) - 1) :
            \E ms \in [1..n -> UNION {memberOf(devices[uniqueGroupMembers[k]]) : k \in 1..n}] :
               /\ \A k \in 1..n : ms[k] \in memberOf(devices[uniqueGroupMembers[k]])
               /\ IF \A k \in 1..n : ms[k].ok
                  THEN /\ groups' = Append(groups, [id |-> id, members |-> [k \in 1..n |-> ms[k].v]])
                       /\ UNCHANGED <<pc, result>>
                  ELSE /\ Goto("thrown")
                       /\ result' = [returned |-> FALSE, error |-> "Cannot pick from an empty array"]
                       /\ UNCHANGED groups
    /\ UNCHANGED <<inputVars, coordinator, devices, uniqueGroupMembers, info, mapVars>>

\* groups() returns after count calls of group() (none when count <= 0)
GroupsReturn ==
    /\ pc = "group"
    /\ Len(groups) >= groupCount
    /\ Goto("bridgeState")
    /\ UNCHANGED <<inputVars, entityVars, mapVars, result>>

\* bridgeState()
BridgeState ==
    /\ pc = "bridgeState"
    /\ Goto("bridgeInfo")
    /\ UNCHANGED <<inputVars, entityVars, mapVars, result>>

\* BridgeInfo followed by the generation of the devices
BridgeInfo_thenDevices ==
    /\ pc = "bridgeInfo"
    /\ \E c \in coordinatorDevices : info' = [coordinator |-> [ieee_address |-> c.ieee_address]]
    /\ Goto("devices")
    /\ UNCHANGED <<inputVars, coordinator, devices, uniqueGroupMembers, groups, mapVars, result>>

\* bridgeInfo(coordinator, devices, groups): its coordinator part takes the
\* address of a newly generated coordinator
BridgeInfo ==
    /\ pc = "bridgeInfo"
    /\ \E c \in coordinatorDevices : info' = [coordinator |-> [ieee_address |-> c.ieee_address]]
    /\ Goto("bridgeHealth")
    /\ UNCHANGED <<inputVars, coordinator, devices, uniqueGroupMembers, groups, mapVars, result>>

\* bridgeHealth(devices)
BridgeHealth ==
    /\ pc = "bridgeHealth"
    /\ Goto("bridgeConverters")
    /\ UNCHANGED <<inputVars, entityVars, mapVars, result>>

\* bridgeConverters()
BridgeConverters ==
    /\ pc = "bridgeConverters"
    /\ Goto("bridgeExtensions")
    /\ UNCHANGED <<inputVars, entityVars, mapVars, result>>

\* bridgeExtensions(); bridgeDevices and bridgeGroups make no draw
BridgeExtensions ==
    /\ pc = "bridgeExtensions"
    /\ Goto("networkMap")
    /\ UNCHANGED <<inputVars, entityVars, mapVars, result>>

(***************************************************************************)
(* networkMap(coordinator, devices, routes)                                *)
(***************************************************************************)
\* The node a device is projected to
nodeOf(d) ==
    [ieeeAddr |-> d.ieee_address, friendlyName |-> d.friendly_name, type |-> d.type,
     networkAddress |-> d.network_address, manufacturerName |-> d.manufacturer,
     modelID |-> d.model_id]

\* OnMesh without the test of the type
OnMesh_all(d) == TRUE

\* The types a device must have to become a node
OnMesh(d) == d.type \in {"Coordinator", "Router", "EndDevice", "Unknown"}

\* for (const device of [coordinator, ...devices]): the devices that are nodes
nodesOf(c, ds) ==
    LET all == <<c>> \o ds
        kept == SelectSeq(all, OnMesh)
    IN  [k \in 1..Len(kept) |-> nodeOf(kept[k])]

\* The first loop of networkMap
NetworkMapNodes ==
    /\ pc = "networkMap"
    /\ nodes' = nodesOf(coordinator, devices)
    /\ links' = <<>>
    /\ i' = 0
    /\ Goto("for_i")
    /\ UNCHANGED <<inputVars, entityVars, j, bIdx, prevBIdxs, result>>

\* for (let i = 0; i < nodes.length - 1; i++): a is nodes[i], no target yet
ForI ==
    /\ pc = "for_i"
    /\ IF i < Len(nodes) - 1
       THEN /\ prevBIdxs' = {}
            /\ j' = 0
            /\ Goto("for_j")
       ELSE /\ Goto("return")
            /\ UNCHANGED <<j, prevBIdxs>>
    /\ UNCHANGED <<inputVars, entityVars, nodes, links, i, bIdx, result>>

\* maxLinksPerNode of the larger networks, for all
maxLinksPerNode_large(n) == 6

\* The most links made from one node: nodes.length < 50 ? 3 : 6
maxLinksPerNode(n) == IF n < 50 THEN 3 ELSE 6

\* pickNodeIdx(): the coordinator (index 0), or any other index
pickNodeIdx(n) == {0} \cup 1..(n - 1)

\* i === 0 ? this.r.int(1, nodes.length - 1) : pickNodeIdx()
firstPick(src, n) == IF src = 0 THEN 1..(n - 1) ELSE pickNodeIdx(n)

\* j < this.r.int(0, ...) holds: a first candidate target is drawn
ForJEnter ==
    /\ pc = "for_j"
    /\ \E count \in 0..maxLinksPerNode(Len(nodes)) : j < count
    /\ Len(links) < MaxLinks
    /\ bIdx' \in firstPick(i, Len(nodes))
    /\ Goto("while")
    /\ UNCHANGED <<inputVars, entityVars, nodes, links, i, j, prevBIdxs, result>>

\* j < this.r.int(0, ...) fails: on to the next source node
ForJExit ==
    /\ pc = "for_j"
    /\ \E count \in 0..maxLinksPerNode(Len(nodes)) : ~(j < count)
    /\ i' = i + 1
    /\ Goto("for_i")
    /\ UNCHANGED <<inputVars, entityVars, nodes, links, j, bIdx, prevBIdxs, result>>

\* Rejected without the test of two EndDevice nodes
Rejected_endDevices(ns, src, prev, c) ==
    \/ c = src
    \/ c \in prev

\* Rejected without the test of prevBIdxs
Rejected_noprev(ns, src, prev, c) ==
    \/ c = src
    \/ ns[src + 1].type = "EndDevice" /\ ns[c + 1].type = "EndDevice"

\* The condition of the while loop on candidate c for the source at index src
Rejected(ns, src, prev, c) ==
    \/ c = src
    \/ c \in prev
    \/ ns[src + 1].type = "EndDevice" /\ ns[c + 1].type = "EndDevice"

\* The body of the while loop: another candidate is drawn
Redraw ==
    /\ pc = "while"
    /\ Rejected(nodes, i, prevBIdxs, bIdx)
    /\ bIdx' \in pickNodeIdx(Len(nodes))
    /\ UNCHANGED <<pc, inputVars, entityVars, nodes, links, i, j, prevBIdxs, result>>

\* linkOf with the source's address in the legacy field of the target
linkOf_legacyTarget(a, b, attr, rel, withRoutes) ==
    [source |-> [ieeeAddr |-> a.ieeeAddr, networkAddress |-> a.networkAddress],
     target |-> [ieeeAddr |-> b.ieeeAddr, networkAddress |-> b.networkAddress],
     linkquality |-> attr.linkquality,
     depth |-> attr.depth,
     routes |-> IF withRoutes
                THEN <<[destinationAddress |-> a.networkAddress,
                        nextHopAddress |-> a.networkAddress]>>
                ELSE <<>>,
     sourceIeeeAddr |-> a.ieeeAddr,
     targetIeeeAddr |-> a.ieeeAddr,
     sourceNwkAddr |-> a.networkAddress,
     lqi |-> attr.linkquality,
     relationship |-> rel]

\* linkOf with a in place of b as the target
linkOf_targetA(a, b, attr, rel, withRoutes) ==
    [source |-> [ieeeAddr |-> a.ieeeAddr, networkAddress |-> a.networkAddress],
     target |-> [ieeeAddr |-> a.ieeeAddr, networkAddress |-> a.networkAddress],
     linkquality |-> attr.linkquality,
     depth |-> attr.depth,
     routes |-> IF withRoutes
                THEN <<[destinationAddress |-> a.networkAddress,
                        nextHopAddress |-> a.networkAddress]>>
                ELSE <<>>,
     sourceIeeeAddr |-> a.ieeeAddr,
     targetIeeeAddr |-> a.ieeeAddr,
     sourceNwkAddr |-> a.networkAddress,
     lqi |-> attr.linkquality,
     relationship |-> rel]

\* The link from a to b, with the drawn attributes and relationship
linkOf(a, b, attr, rel, withRoutes) ==
    [source |-> [ieeeAddr |-> a.ieeeAddr, networkAddress |-> a.networkAddress],
     target |-> [ieeeAddr |-> b.ieeeAddr, networkAddress |-> b.networkAddress],
     linkquality |-> attr.linkquality,
     depth |-> attr.depth,
     routes |-> IF withRoutes
                THEN <<[destinationAddress |-> a.networkAddress,
                        nextHopAddress |-> a.networkAddress]>>
                ELSE <<>>,
     sourceIeeeAddr |-> a.ieeeAddr,
     targetIeeeAddr |-> b.ieeeAddr,
     sourceNwkAddr |-> a.networkAddress,
     lqi |-> attr.linkquality,
     relationship |-> rel]

\* The candidate passed the while loop: the link is pushed, or
\* relationshipByType throws
PushLink ==
    /\ pc = "while"
    /\ ~Rejected(nodes, i, prevBIdxs, bIdx)
    /\ prevBIdxs' = prevBIdxs \cup {bIdx}
    /\ \E attr \in LinkAttrDraws :
         \E rel \in relationshipByType(0, nodes[i + 1].type, nodes[bIdx + 1].type) :
            /\ relRes' = rel
            /\ IF rel.ok
               THEN /\ links' = Append(links,
                                       linkOf(nodes[i + 1], nodes[bIdx + 1], attr, rel.v,
                                              routes))
                    /\ j' = j + 1
                    /\ Goto("for_j")
                    /\ UNCHANGED result
               ELSE /\ Goto("thrown")
                    /\ result' = [returned |-> FALSE, error |-> rel.v]
                    /\ UNCHANGED <<links, j>>
    /\ relA' = nodes[i + 1].type
    /\ relB' = nodes[bIdx + 1].type
    /\ relR' = 0
    /\ UNCHANGED <<inputVars, entityVars, nodes, i, bIdx>>

\* rawNetworkMap(coordinator, devices, routes) returns
NetworkMapReturn ==
    /\ pc = "return"
    /\ IF entry = "snapshot"
       THEN /\ Goto("snapshotReturn")
            /\ UNCHANGED result
       ELSE /\ Goto("done")
            /\ result' = [returned |-> TRUE,
                          networkMap |-> [type |-> "raw", routes |-> routes,
                                          value |-> [nodes |-> nodes, links |-> links]]]
    /\ UNCHANGED <<inputVars, entityVars, mapVars>>

\* bridgeDevices without the coordinator
bridgeDevices_devicesOnly(c, ds) == ds

\* bridgeDevices(coordinator, devices)
bridgeDevices(c, ds) == <<c>> \o ds

\* snapshot(deviceCount, groupCount) returns
SnapshotReturn ==
    /\ pc = "snapshotReturn"
    /\ result' = [returned |-> TRUE,
                  info |-> info,
                  devices |-> bridgeDevices(coordinator, devices),
                  groups |-> groups,
                  networkMap |-> [type |-> "raw", routes |-> routes,
                                  value |-> [nodes |-> nodes, links |-> links]]]
    /\ Goto("done")
    /\ UNCHANGED <<inputVars, entityVars, mapVars>>

(***************************************************************************)
(* Spec: new Zigbee2MQTTAPIFaker(seed).snapshot(deviceCount, groupCount)   *)
(***************************************************************************)
Init ==
    /\ pc = "coordinator"
    /\ entry = "snapshot"
    /\ catalog = SmallCatalog
    /\ deviceCount \in -1..MaxDeviceCount
    /\ groupCount \in -1..MaxGroupCount
    /\ routes = FALSE
    /\ FakerFresh
    /\ RngIdle
    /\ RelIdle
    /\ CallIdle

Next ==
    \/ (Coordinator /\ UNCHANGED <<rngVars, relVars, callVars>>)
    \/ (Device /\ UNCHANGED <<rngVars, relVars, callVars>>)
    \/ (DevicesReturn /\ UNCHANGED <<rngVars, relVars, callVars>>)
    \/ (Groups /\ UNCHANGED <<rngVars, relVars, callVars>>)
    \/ (Group /\ UNCHANGED <<rngVars, relVars, callVars>>)
    \/ (GroupsReturn /\ UNCHANGED <<rngVars, relVars, callVars>>)
    \/ (BridgeState /\ UNCHANGED <<rngVars, relVars, callVars>>)
    \/ (BridgeInfo /\ UNCHANGED <<rngVars, relVars, callVars>>)
    \/ (BridgeHealth /\ UNCHANGED <<rngVars, relVars, callVars>>)
    \/ (BridgeConverters /\ UNCHANGED <<rngVars, relVars, callVars>>)
    \/ (BridgeExtensions /\ UNCHANGED <<rngVars, relVars, callVars>>)
    \/ (NetworkMapNodes /\ UNCHANGED <<rngVars, relVars, callVars>>)
    \/ (ForI /\ UNCHANGED <<rngVars, relVars, callVars>>)
    \/ (ForJEnter /\ UNCHANGED <<rngVars, relVars, callVars>>)
    \/ (ForJExit /\ UNCHANGED <<rngVars, relVars, callVars>>)
    \/ (Redraw /\ UNCHANGED <<rngVars, relVars, callVars>>)
    \/ (PushLink /\ UNCHANGED <<rngVars, callVars>>)
    \/ (NetworkMapReturn /\ UNCHANGED <<rngVars, relVars, callVars>>)
    \/ (SnapshotReturn /\ UNCHANGED <<rngVars, relVars, callVars>>)

Spec == Init /\ [][Next]_vars

(***************************************************************************)
(* SpecMap: rawNetworkMap(coordinator, devices, routes) on a coordinator   *)
(* and devices of every type, each with an address of its own.             *)
(***************************************************************************)
IeeePool ==
    <<"0x00124b0000000000", "0x00124b0000000001", "0x00124b0000000002",
      "0x00124b0000000003", "0x00124b0000000004", "0x00124b0000000005">>

\* The device at position k (0 for the coordinator) of the given type
MapDevice(k, type) ==
    [ieee_address |-> IeeePool[k + 1], type |-> type, network_address |-> k,
     friendly_name |-> IF k = 0 THEN "Coordinator" ELSE "alpha_1000_alpha",
     model_id |-> IF k = 0 THEN "" ELSE "M1",
     manufacturer |-> IF k = 0 THEN "" ELSE "V1",
     endpoints |-> {HA_ENDPOINT}]

InitMap ==
    /\ pc = "networkMap"
    /\ entry = "networkMap"
    /\ catalog = SmallCatalog
    /\ deviceCount = 0
    /\ groupCount = 0
    /\ routes \in BOOLEAN
    /\ coordinator = MapDevice(0, "Coordinator")
    /\ \E n \in 0..MaxMapDevices :
         \E types \in [1..n -> deviceType] :
            devices = [k \in 1..n |-> MapDevice(k, types[k])]
    /\ uniqueGroupMembers = <<>>
    /\ groups = <<>>
    /\ info = NoInfo
    /\ nodes = <<>>
    /\ links = <<>>
    /\ i = 0
    /\ j = 0
    /\ bIdx = 0
    /\ prevBIdxs = {}
    /\ result = NoResult
    /\ RngIdle
    /\ RelIdle
    /\ CallIdle

NextMap ==
    \/ (NetworkMapNodes /\ UNCHANGED <<rngVars, relVars, callVars>>)
    \/ (ForI /\ UNCHANGED <<rngVars, relVars, callVars>>)
    \/ (ForJEnter /\ UNCHANGED <<rngVars, relVars, callVars>>)
    \/ (ForJExit /\ UNCHANGED <<rngVars, relVars, callVars>>)
    \/ (Redraw /\ UNCHANGED <<rngVars, relVars, callVars>>)
    \/ (PushLink /\ UNCHANGED <<rngVars, callVars>>)
    \/ (NetworkMapReturn /\ UNCHANGED <<rngVars, relVars, callVars>>)

SpecMap == InitMap /\ [][NextMap]_vars

(***************************************************************************)
(* SpecGroups: snapshot(deviceCount, groupCount) from its call of          *)
(* groups(groupCount, devices) on, where devices() returned green-power    *)
(* devices only, so that the coordinator is the one node of the map.       *)
(***************************************************************************)
MaxCandidates == 3

GreenPowerDevices == {d \in device(SmallCatalog) : d.type = "GreenPower"}

InitGroups ==
    /\ pc = "groups"
    /\ entry = "snapshot"
    /\ catalog = SmallCatalog
    /\ deviceCount \in 0..MaxCandidates
    /\ groupCount \in 0..MaxGroupCount
    /\ routes = FALSE
    /\ coordinator = CHOOSE c \in coordinatorDevices :
                        c.network_address = 0 /\ c.endpoints = {HA_ENDPOINT, GP_ENDPOINT}
    /\ devices \in [1..deviceCount -> GreenPowerDevices]
    /\ uniqueGroupMembers = <<>>
    /\ groups = <<>>
    /\ info = NoInfo
    /\ nodes = <<>>
    /\ links = <<>>
    /\ i = 0
    /\ j = 0
    /\ bIdx = 0
    /\ prevBIdxs = {}
    /\ result = NoResult
    /\ RngIdle
    /\ RelIdle
    /\ CallIdle

NextGroups ==
    \/ (Groups /\ UNCHANGED <<rngVars, relVars, callVars>>)
    \/ (Group /\ UNCHANGED <<rngVars, relVars, callVars>>)
    \/ (GroupsReturn /\ UNCHANGED <<rngVars, relVars, callVars>>)
    \/ (BridgeState /\ UNCHANGED <<rngVars, relVars, callVars>>)
    \/ (BridgeInfo /\ UNCHANGED <<rngVars, relVars, callVars>>)
    \/ (BridgeHealth /\ UNCHANGED <<rngVars, relVars, callVars>>)
    \/ (BridgeConverters /\ UNCHANGED <<rngVars, relVars, callVars>>)
    \/ (BridgeExtensions /\ UNCHANGED <<rngVars, relVars, callVars>>)
    \/ (NetworkMapNodes /\ UNCHANGED <<rngVars, relVars, callVars>>)
    \/ (ForI /\ UNCHANGED <<rngVars, relVars, callVars>>)
    \/ (NetworkMapReturn /\ UNCHANGED <<rngVars, relVars, callVars>>)
    \/ (SnapshotReturn /\ UNCHANGED <<rngVars, relVars, callVars>>)

SpecGroups == InitGroups /\ [][NextGroups]_vars

(***************************************************************************)
(* The snapshot that was returned                                          *)
(***************************************************************************)
Returned == pc = "done" /\ result.returned

\* The devices of a list with the given address
DevicesAt(list, ieee) == {k \in 1..Len(list) : list[k].ieee_address = ieee}

\* What C2 says of the returned snapshot but for the number of its groups
SnapshotShape ==
    /\ Len(result.devices) = Max(deviceCount, 0) + 1
    /\ result.devices[1].type = "Coordinator"
    /\ result.devices[1].network_address = 0
    /\ result.devices[1].friendly_name = "Coordinator"
    /\ \A k \in 2..Len(result.devices) : result.devices[k].type # "Coordinator"
    /\ result.networkMap.type = "raw"
    /\ result.networkMap.routes = FALSE

\* C2 as stated: after snapshot(deviceCount, groupCount) returns, the device
\* list has max(deviceCount, 0) + 1 entries with the coordinator (type
\* Coordinator, network address 0, name "Coordinator") first and no other
\* coordinator, the group list has exactly groupCount entries, and the network
\* map is of type "raw" with routes false
C2_GroupListHasGroupCountEntries ==
    Returned => SnapshotShape /\ Len(result.groups) = groupCount

\* C2 amended: as above, with a group list of max(groupCount, 0) entries (a
\* negative groupCount gives no group, as a negative deviceCount gives no
\* device)
C2_SnapshotShape ==
    Returned => SnapshotShape /\ Len(result.groups) = Max(groupCount, 0)

C2_Witness ==
    /\ Returned
    /\ deviceCount = 1
    /\ groupCount = 2
    /\ Len(result.devices) = 2
    /\ result.devices[2].type = "Router"
    /\ Len(result.groups) = 2

\* C3: in every snapshot, the address of every member of every group is the
\* address of a device of the snapshot's device list, and the member's endpoint
\* is one of the endpoint ids of that device
C3_GroupMembersReferenceDevices ==
    Returned =>
        \A g \in 1..Len(result.groups) :
            \A m \in 1..Len(result.groups[g].members) :
                \E k \in DevicesAt(result.devices, result.groups[g].members[m].ieee_address) :
                    result.groups[g].members[m].endpoint \in result.devices[k].endpoints

\* A returned snapshot with a group whose member is on an endpoint other than
\* the first one, the only endpoint of its device
C3_Witness ==
    /\ Returned
    /\ \E g \in 1..Len(result.groups) :
         \E m \in 1..Len(result.groups[g].members) :
            /\ result.groups[g].members[m].endpoint # HA_ENDPOINT
            /\ \A k \in DevicesAt(result.devices, result.groups[g].members[m].ieee_address) :
                  result.devices[k].endpoints = {result.groups[g].members[m].endpoint}

(***************************************************************************)
(* The network map                                                         *)
(***************************************************************************)
\* The positions (from 0) of the nodes with the address pair of a link's end
NodesAt(ref) ==
    {n \in 0..(Len(nodes) - 1) :
       /\ nodes[n + 1].ieeeAddr = ref.ieeeAddr
       /\ nodes[n + 1].networkAddress = ref.networkAddress}

\* The devices of the input that are on the mesh, as positions of the input
MeshDevices == {k \in 1..Len(devices) : devices[k].type \in {"Router", "EndDevice", "Unknown"}}

\* The node list has been built
NodesBuilt == pc \in {"for_i", "for_j", "while", "return", "done"}

SameIdentity(n, d) ==
    /\ n.ieeeAddr = d.ieee_address
    /\ n.networkAddress = d.network_address
    /\ n.type = d.type

\* C4: the node list of networkMap(coordinator, devices) is the coordinator
\* followed by the Router, EndDevice and Unknown devices in input order, each
\* once and with its device's address, network address and type, no node is a
\* GreenPower device, and both ends of every link are nodes of the list
C4_NodesAreMeshDevices ==
    NodesBuilt =>
        /\ Len(nodes) = 1 + Cardinality(MeshDevices)
        /\ SameIdentity(nodes[1], coordinator)
        /\ \A k \in MeshDevices :
              SameIdentity(nodes[1 + Cardinality({m \in MeshDevices : m <= k})], devices[k])
        /\ \A n \in 1..Len(nodes) : nodes[n].type # "GreenPower"
        /\ \A l \in 1..Len(links) :
              NodesAt(links[l].source) # {} /\ NodesAt(links[l].target) # {}

\* The map of a green-power device followed by a router was returned, with a
\* link
C4_Witness ==
    /\ pc = "done"
    /\ entry = "networkMap"
    /\ Len(devices) = 2
    /\ devices[1].type = "GreenPower"
    /\ devices[2].type = "Router"
    /\ Len(result.networkMap.value.nodes) = 2
    /\ Len(result.networkMap.value.links) = 1

\* C5: no link of a network map has its source node as target, and no two
\* links from one source node have the same target node
C5_NoSelfLinkNoDuplicateTarget ==
    /\ \A l \in 1..Len(links) : NodesAt(links[l].source) \cap NodesAt(links[l].target) = {}
    /\ \A l1, l2 \in 1..Len(links) :
          l1 # l2 /\ links[l1].source = links[l2].source
             => links[l1].target # links[l2].target

\* A map was returned with two links from one source, the second found by a
\* re-draw
C5_Witness ==
    /\ pc = "done"
    /\ entry = "networkMap"
    /\ Len(result.networkMap.value.links) = 2
    /\ result.networkMap.value.links[1].source = result.networkMap.value.links[2].source
    /\ result.networkMap.value.links[1].source.networkAddress # 0

\* The type of the node at a link's end
TypeAt(ref) == {nodes[n + 1].type : n \in NodesAt(ref)}

\* C6: no link of a network map goes from an EndDevice node to an EndDevice
\* node
C6_NoLinkBetweenEndDevices ==
    \A l \in 1..Len(links) :
        ~("EndDevice" \in TypeAt(links[l].source) /\ "EndDevice" \in TypeAt(links[l].target))

\* A map with two EndDevice nodes was returned, with a link from the first
C6_Witness ==
    /\ pc = "done"
    /\ entry = "networkMap"
    /\ Len(nodes) = 3
    /\ nodes[2].type = "EndDevice"
    /\ nodes[3].type = "EndDevice"
    /\ \E l \in 1..Len(result.networkMap.value.links) :
          result.networkMap.value.links[l].source.ieeeAddr = nodes[2].ieeeAddr

\* C7: whenever the while loop of networkMap holds a candidate it rejects,
\* pickNodeIdx has an outcome that the loop accepts, so that the loop ends
\* under fair draws
C7_RedrawHasAcceptableCandidate ==
    pc = "while" /\ Rejected(nodes, i, prevBIdxs, bIdx)
        => \E c \in pickNodeIdx(Len(nodes)) : ~Rejected(nodes, i, prevBIdxs, c)

\* C11: relationshipByType never returns previous-child; (Coordinator, Router)
\* returns child or sibling only, (Router, Coordinator) and (Router, Router)
\* parent or sibling only; no link of a network map carries previous-child
C11_NoPreviousChild ==
    /\ Called /\ relRes.ok =>
          /\ relRes.v # NeighborIsPreviousChild
          /\ relA = "Coordinator" /\ relB = "Router"
                => relRes.v \in {NeighborIsAChild, NeighborIsASibling}
          /\ relA = "Router" /\ relB \in {"Coordinator", "Router"}
                => relRes.v \in {NeighborIsParent, NeighborIsASibling}
    /\ \A l \in 1..Len(links) : links[l].relationship # NeighborIsPreviousChild

\* A map was returned whose last link, from a Router to a Router, got its
\* relationship from the pick that follows the failed 75% draw
C11_Witness ==
    /\ pc = "done"
    /\ Called
    /\ relA = "Router"
    /\ relB = "Router"
    /\ relRes.ok
    /\ relRes.r = 2
    /\ relRes.v = NeighborIsParent
    /\ Len(result.networkMap.value.links) > 0
    /\ result.networkMap.value.links[Len(links)].relationship = NeighborIsParent

(***************************************************************************)
(* SpecDevices: new Zigbee2MQTTAPIFaker(seed).devices(count)               *)
(***************************************************************************)
MaxDevices == 2

InitDevices ==
    /\ pc = "devices"
    /\ entry = "devices"
    /\ catalog = SmallCatalog
    /\ deviceCount \in -1..MaxDevices
    /\ groupCount = 0
    /\ routes = FALSE
    /\ FakerFresh
    /\ RngIdle
    /\ RelIdle
    /\ CallIdle

NextDevices ==
    \/ (Device /\ UNCHANGED <<rngVars, relVars, callVars>>)
    \/ (DevicesReturn /\ UNCHANGED <<rngVars, relVars, callVars>>)

SpecDevices == InitDevices /\ [][NextDevices]_vars

\* C12: within one devices(n) call, no two devices have the same
\* network_address
C12_NetworkAddressesUnique ==
    \A k1, k2 \in 1..Len(devices) :
        k1 # k2 => devices[k1].network_address # devices[k2].network_address

\* C14: in a returned snapshot the address of the coordinator in the bridge
\* info is the address of the first device of the device list, which is the
\* address of the first node of the network map
C14_CoordinatorIdentityShared ==
    Returned =>
        /\ result.info.coordinator.ieee_address = result.devices[1].ieee_address
        /\ result.devices[1].ieee_address = result.networkMap.value.nodes[1].ieeeAddr

(***************************************************************************)
(* SpecClock: one entry point called in two runs, on streams in the same   *)
(* state and with the same arguments, each run at its own wall-clock time. *)
(* callArgs holds the entry point, the draws of the stream (the same in    *)
(* both runs) and the reading of Date.now() in each run.                   *)
(***************************************************************************)
Runs == {1, 2}

\* Readings of Date.now(), in ms from an origin 10^9 ms before the earlier one
ClockReadings == {10 ^ 9, 10 ^ 9 + 1}

EntryPoints == {"entityState", "networkMap", "bridgeInfo", "bridgeHealth"}

\* The draws of a run that its dates depend on: a boolean (permitJoin, or the
\* r.bool(0.85) of isoPastDate) and the end of its range the r.int is at
ClockStreams == [flag : BOOLEAN, high : BOOLEAN]

\* r.int(min, max) on the stream s
StreamInt(s, min, max) == IF s.high THEN max ELSE min

\* isoPastDate(r) at time t, as the ms of the date
isoPastDate(s, t) ==
    t - StreamInt(s, 10000, IF s.flag THEN 20000000 ELSE 1000000000)

\* The dates in what the entry point e returns on stream s at time t
DatesOf(e, s, t) ==
    CASE e = "entityState" -> [last_seen |-> isoPastDate(s, t)]
      [] e = "networkMap" -> [lastSeen |-> t - StreamInt(s, 0, 36000000)]
      [] e = "bridgeInfo" ->
            [permit_join |-> s.flag,
             permit_join_end |-> IF s.flag THEN t + StreamInt(s, 30000, 254000) ELSE 0]
      [] OTHER -> [response_time |-> t]

InitClock ==
    /\ callFn \in EntryPoints
    /\ callArgs \in [stream : ClockStreams, now : [Runs -> ClockReadings]]
    /\ callRes = [run \in Runs |-> NoCall]
    /\ RngIdle
    /\ RelIdle
    /\ FakerIdle

\* The entry point is called in one of the runs
ClockCall(run) ==
    /\ callRes[run] = NoCall
    /\ callRes' = [callRes EXCEPT
                     ![run] = Ret(0, DatesOf(callFn, callArgs.stream, callArgs.now[run]))]
    /\ UNCHANGED <<callFn, callArgs, rngVars, relVars, fakerVars>>

NextClock == \E run \in Runs : ClockCall(run)

SpecClock == InitClock /\ [][NextClock]_vars

\* C15: two runs of an entry point (entityState, networkMap, bridgeInfo,
\* bridgeHealth) from equal stream states with equal arguments return equal
\* outputs, whatever the wall-clock time of each run
C15_OutputIsFunctionOfStreamAndArguments ==
    callFn \in EntryPoints /\ (\A run \in Runs : callRes[run] # NoCall)
        => callRes[1] = callRes[2]

(***************************************************************************)
(* SpecExpose: exposeValue(r, expose) on a numeric descriptor              *)
(***************************************************************************)
\* A property of a descriptor that is declared with value v, or is not
Declared(v) == [has |-> TRUE, v |-> v]

Undeclared == [has |-> FALSE, v |-> 0]

\* r.int(min, max), at the ends of what Math.floor(next() * (max - min + 1)) + min
\* can be (for max < min the product is in (max - min + 1, 0])
DrawInt(r, min, max) ==
    {Ret(r + 1, v) : v \in IF max >= min THEN {min, max} ELSE {max + 1, min}}

\* (expose.value_max ?? r.bool(0.75)): value_max when declared, else the draw
ValueMaxOrBool(r, expose) ==
    IF expose.value_max.has
    THEN {Ret(r, expose.value_max.v # 0)}
    ELSE DrawBool(r)

\* (expose.value_max ?? r.bool(0.75)) ? 255 : 1_000
numericMax(r, expose) ==
    {Ret(c.r, IF c.v THEN 255 ELSE 1000) : c \in ValueMaxOrBool(r, expose)}

\* exposeValue(r, expose) for expose.type = "numeric"
exposeValue(r, expose) ==
    IF expose.name = "linkquality"
    THEN DrawInt(r, 30, 255)
    ELSE UNION {DrawInt(max.r, IF expose.value_min.has THEN expose.value_min.v ELSE 0, max.v) :
                  max \in numericMax(r, expose)}

NumericExposes ==
    [name : {"linkquality", "brightness"},
     value_min : {Undeclared, Declared(0), Declared(10), Declared(300)},
     value_max : {Undeclared, Declared(0), Declared(100), Declared(254), Declared(500)}]

InitExpose ==
    /\ callFn = "exposeValue"
    /\ callArgs \in [r : 0..MaxStreamPos, expose : NumericExposes]
    /\ callRes = NoCall
    /\ RngIdle
    /\ RelIdle
    /\ FakerIdle

ExposeCall ==
    /\ callFn = "exposeValue"
    /\ callRes = NoCall
    /\ callRes' \in exposeValue(callArgs.r, callArgs.expose)
    /\ UNCHANGED <<callFn, callArgs, rngVars, relVars, fakerVars>>

NextExpose == ExposeCall

SpecExpose == InitExpose /\ [][NextExpose]_vars

\* The least value C16 allows: value_min, or 0
ExposeLow == IF callArgs.expose.value_min.has THEN callArgs.expose.value_min.v ELSE 0

\* C16: the value of a numeric descriptor other than linkquality is between
\* (value_min or 0) and value_max when value_max is declared, and between
\* (value_min or 0) and 255 or 1000 when it is not; the value of linkquality is
\* between 30 and 255
C16_NumericValueWithinDeclaredRange ==
    callFn = "exposeValue" /\ callRes # NoCall =>
        IF callArgs.expose.name = "linkquality"
        THEN callRes.v \in 30..255
        ELSE /\ ExposeLow <= callRes.v
             /\ callArgs.expose.value_max.has => callRes.v <= callArgs.expose.value_max.v
             /\ ~callArgs.expose.value_max.has => callRes.v <= 1000

(***************************************************************************)
(* SpecIterate: iterateExposes(exposes, fn, skipRoot) and iterateOptions,  *)
(* with fn recording the node it is given.  A node is known by its         *)
(* position: <<k>> is the k-th node of the list, Append(p, k) the k-th      *)
(* node of the features of the node at p.                                  *)
(***************************************************************************)
MaxNodes == 4

\* A node without a features property, and one with the features fs
Leaf == [has |-> FALSE, features |-> <<>>]

Featured(fs) == [has |-> TRUE, features |-> fs]

RECURSIVE ForestsOf(_)
RECURSIVE TreesOf(_)
\* The lists of nodes with n nodes in all, descendants included
ForestsOf(n) ==
    IF n = 0 THEN {<<>>}
    ELSE UNION {{<<t>> \o f : t \in TreesOf(k), f \in ForestsOf(n - k)} : k \in 1..n}

\* The nodes with n nodes in all, themselves included
TreesOf(n) ==
    (IF n = 1 THEN {Leaf} ELSE {}) \cup {Featured(fs) : fs \in ForestsOf(n - 1)}

RECURSIVE iterateExposes_skipNested(_, _, _)
\* iterateExposes with skipRoot handed on to the calls on the features
iterateExposes_skipNested(exposes, at, skipRoot) ==
    LET visit[k \in 0..Len(exposes)] ==
            IF k = 0 THEN <<>>
            ELSE visit[k - 1]
                    \o (IF ~skipRoot \/ ~exposes[k].has THEN <<Append(at, k)>> ELSE <<>>)
                    \o (IF exposes[k].has
                        THEN iterateExposes_skipNested(exposes[k].features, Append(at, k),
                                                       skipRoot)
                        ELSE <<>>)
    IN  visit[Len(exposes)]

RECURSIVE iterateExposes(_, _, _)
\* iterateExposes(exposes, fn, skipRoot) for the nodes at position `at`: the
\* positions of the nodes fn is called on, in the order of the calls
iterateExposes(exposes, at, skipRoot) ==
    LET visit[k \in 0..Len(exposes)] ==
            IF k = 0 THEN <<>>
            ELSE visit[k - 1]
                    \o (IF ~skipRoot \/ ~exposes[k].has THEN <<Append(at, k)>> ELSE <<>>)
                    \o (IF exposes[k].has
                        THEN iterateExposes(exposes[k].features, Append(at, k), FALSE)
                        ELSE <<>>)
    IN  visit[Len(exposes)]

RECURSIVE iterateOptions(_, _, _)
\* iterateOptions(options, fn, skipRoot)
iterateOptions(options, at, skipRoot) ==
    LET visit[k \in 0..Len(options)] ==
            IF k = 0 THEN <<>>
            ELSE visit[k - 1]
                    \o (IF ~skipRoot \/ ~options[k].has THEN <<Append(at, k)>> ELSE <<>>)
                    \o (IF options[k].has
                        THEN iterateOptions(options[k].features, Append(at, k), FALSE)
                        ELSE <<>>)
    IN  visit[Len(options)]

InitIterate ==
    /\ callFn \in {"iterateExposes", "iterateOptions"}
    /\ \E n \in 0..MaxNodes :
         callArgs \in [nodes : ForestsOf(n), skipRoot : BOOLEAN]
    /\ callRes = NoCall
    /\ RngIdle
    /\ RelIdle
    /\ FakerIdle

IterateCall ==
    /\ callFn \in {"iterateExposes", "iterateOptions"}
    /\ callRes = NoCall
    /\ callRes' = Ret(0, IF callFn = "iterateExposes"
                         THEN iterateExposes(callArgs.nodes, <<>>, callArgs.skipRoot)
                         ELSE iterateOptions(callArgs.nodes, <<>>, callArgs.skipRoot))
    /\ UNCHANGED <<callFn, callArgs, rngVars, relVars, fakerVars>>

NextIterate == IterateCall

SpecIterate == InitIterate /\ [][NextIterate]_vars

RECURSIVE PositionsIn(_, _)
\* The positions of all the nodes of a list at position `at`
PositionsIn(list, at) ==
    UNION {{Append(at, k)} \cup
           (IF list[k].has THEN PositionsIn(list[k].features, Append(at, k)) ELSE {}) :
             k \in 1..Len(list)}

\* Position p comes before position q in pre-order: p is a proper prefix of
\* q, or p is to the left of q where they part
PreOrderBefore(p, q) ==
    \/ Len(p) < Len(q) /\ \A d \in 1..Len(p) : p[d] = q[d]
    \/ \E d \in 1..Len(p) :
          /\ d <= Len(q)
          /\ p[d] < q[d]
          /\ \A e \in 1..(d - 1) : p[e] = q[e]

\* C17: iterateExposes and iterateOptions call fn once on every node, in
\* pre-order, but for the top-level nodes with a features list when skipRoot is
\* true; the descendants of those are all visited
C17_VisitsEveryNodeOnceInPreOrder ==
    callFn \in {"iterateExposes", "iterateOptions"} /\ callRes # NoCall =>
        LET visited == callRes.v
            skipped == IF callArgs.skipRoot
                       THEN {<<k>> : k \in {n \in 1..Len(callArgs.nodes) : callArgs.nodes[n].has}}
                       ELSE {}
        IN  /\ {visited[n] : n \in 1..Len(visited)} = PositionsIn(callArgs.nodes, <<>>) \ skipped
            /\ \A m, n \in 1..Len(visited) : m < n => PreOrderBefore(visited[m], visited[n])

\* iterateExposes was called with skipRoot on a node with features, one of
\* which has a feature of its own: fn was called on both but not on the node
C17_Witness ==
    /\ callFn = "iterateExposes"
    /\ callRes # NoCall
    /\ callArgs.skipRoot
    /\ callArgs.nodes = <<Featured(<<Featured(<<Leaf>>)>>), Leaf>>
    /\ callRes.v = <<<<1, 1>>, <<1, 1, 1>>, <<2>>>>

(***************************************************************************)
(* SpecScenes: the scenes of the endpoints of a run.  callRes is the list  *)
(* of the scene lists returned by the endpoint() calls made so far.        *)
(***************************************************************************)
MaxEndpoints == 2

\* r.bool(0.75) ? 0 : r.int(0, 3)
ScenesCounts == 0..3

\* r.int(1, 255), at both ends of the range and next to them
SceneIdDraws == {1, 2, 254, 255}

\* scenes.push({ id, name: `scene_${k + 1}` })
sceneOf(id, k) == [id |-> id, name |-> k + 1]

RECURSIVE endpointScenes_noRedraw(_, _, _, _)
\* The scenes loop of endpoint() without the redraw of an id already added
endpointScenes_noRedraw(k, scenesCount, scenes, addedScenes) ==
    IF k >= scenesCount THEN {scenes}
    ELSE UNION {endpointScenes_noRedraw(k + 1, scenesCount, Append(scenes, sceneOf(id, k)),
                                        addedScenes \cup {id}) :
                  id \in SceneIdDraws}

RECURSIVE endpointScenes(_, _, _, _)
\* The scenes loop of endpoint() from iteration k on: the scene lists it can
\* end with.  An id is drawn again while it is in addedScenes, so the id
\* pushed is a draw outside of addedScenes
endpointScenes(k, scenesCount, scenes, addedScenes) ==
    IF k >= scenesCount THEN {scenes}
    ELSE UNION {endpointScenes(k + 1, scenesCount, Append(scenes, sceneOf(id, k)),
                               addedScenes \cup {id}) :
                  id \in SceneIdDraws \ addedScenes}

InitScenes ==
    /\ callFn = "endpoint"
    /\ callArgs = <<>>
    /\ callRes = <<>>
    /\ RngIdle
    /\ RelIdle
    /\ FakerIdle

\* One endpoint() call: scenes and addedScenes start empty in every call
Endpoint ==
    /\ callFn = "endpoint"
    /\ Len(callRes) < MaxEndpoints
    /\ \E scenesCount \in ScenesCounts :
         \E scenes \in endpointScenes(0, scenesCount, <<>>, {}) :
            callRes' = Append(callRes, scenes)
    /\ UNCHANGED <<callFn, callArgs, rngVars, relVars, fakerVars>>

NextScenes == Endpoint

SpecScenes == InitScenes /\ [][NextScenes]_vars

\* All the scene records of the run, each with the endpoint and the place it
\* has in the endpoint's list
SceneRecords ==
    UNION {{<<e, n>> : n \in 1..Len(callRes[e])} : e \in 1..Len(callRes)}

\* C18 as stated: scene ids are in 1..255 and no two scene records of the run,
\* on whatever endpoints, have the same id
C18_SceneIdsUniqueAcrossRun ==
    callFn = "endpoint" =>
        /\ \A x \in SceneRecords : callRes[x[1]][x[2]].id \in 1..255
        /\ \A x, y \in SceneRecords :
              x # y => callRes[x[1]][x[2]].id # callRes[y[1]][y[2]].id

\* C18: scene ids are in 1..255 and no two scene records of one endpoint have
\* the same id
C18_SceneIdsUniquePerEndpoint ==
    callFn = "endpoint" =>
        /\ \A x \in SceneRecords : callRes[x[1]][x[2]].id \in 1..255
        /\ \A x, y \in SceneRecords :
              x # y /\ x[1] = y[1] => callRes[x[1]][x[2]].id # callRes[y[1]][y[2]].id

\* Two endpoints were generated with three scenes each, and the second has
\* an id of the first
C18_Witness ==
    /\ callFn = "endpoint"
    /\ Len(callRes) = 2
    /\ Len(callRes[1]) = 3
    /\ Len(callRes[2]) = 3
    /\ callRes[1][1].id = 255
    /\ callRes[2][3].id = 255

(***************************************************************************)
(* SpecModel: device(type, model) with a forced model.  A model name is a  *)
(* sequence of characters.                                                 *)
(***************************************************************************)
MaxModelLen == 2

Chars == {"A", "a", "B", "b", "1", "2"}

\* String.prototype.toLowerCase on one character
LowerChar(c) == CASE c = "A" -> "a" [] c = "B" -> "b" [] OTHER -> c

\* String.prototype.toLowerCase
toLowerCase(str) == [n \in DOMAIN str |-> LowerChar(str[n])]

NoWhiteLabel == [has |-> FALSE, list |-> <<>>]

WhiteLabel(list) == [has |-> TRUE, list |-> list]

\* A catalog where a white-label model of the second record is the primary
\* model of the first in another case, and the primary model of the third is a
\* white-label model of the second in another case
LabelCatalog ==
    <<[model |-> <<"A", "1">>, vendor |-> "V1", gp |-> FALSE, endpoint |-> NoResolver,
       whiteLabel |-> NoWhiteLabel],
      [model |-> <<"B", "1">>, vendor |-> "V2", gp |-> FALSE, endpoint |-> NoResolver,
       whiteLabel |-> WhiteLabel(<<[model |-> <<"a", "1">>, vendor |-> "W1"],
                                   [model |-> <<"B", "2">>, vendor |-> "W2"]>>)],
      [model |-> <<"b", "2">>, vendor |-> "V3", gp |-> TRUE, endpoint |-> NoResolver,
       whiteLabel |-> WhiteLabel(<<>>)],
      [model |-> <<"a">>, vendor |-> "V4", gp |-> FALSE, endpoint |-> NoResolver,
       whiteLabel |-> WhiteLabel(<<[model |-> <<"2">>, vendor |-> "W3"]>>)]>>

Reversed(seq) == [n \in 1..Len(seq) |-> seq[Len(seq) + 1 - n]]

LabelCatalogs == {LabelCatalog, Reversed(LabelCatalog)}

Undefined == [found |-> FALSE]

Found(def) == [found |-> TRUE, def |-> def]

\* findDefinitionByModel matching the primary models only
findDefinitionByModel_primaryOnly(cat, definitionModel) ==
    LET lcModel == toLowerCase(definitionModel)
        matching == {n \in 1..Len(cat) : toLowerCase(cat[n].model) = lcModel}
    IN  IF matching = {} THEN Undefined
        ELSE Found(cat[CHOOSE n \in matching : \A m \in matching : n <= m])

\* findDefinitionByModel(definitionModel): the first definition of the catalog
\* whose model, or one of whose white-label models, is the model in lower case
findDefinitionByModel(cat, definitionModel) ==
    LET lcModel == toLowerCase(definitionModel)
        matching ==
            {n \in 1..Len(cat) :
               \/ toLowerCase(cat[n].model) = lcModel
               \/ /\ cat[n].whiteLabel.has
                  /\ \E whiteLabelEntry \in Elements(cat[n].whiteLabel.list) :
                        toLowerCase(whiteLabelEntry.model) = lcModel}
    IN  IF matching = {} THEN Undefined
        ELSE Found(cat[CHOOSE n \in matching : \A m \in matching : n <= m])

\* device(type, model): the outcomes of the call.  An empty model is not a
\* forced model: the definition is then picked, and picking from an empty list
\* throws
deviceWithModel(cat, type, model) ==
    LET typeOrRs == IF type = "undefined" THEN deviceType ELSE {type}
    IN  UNION {IF model # <<>>
               THEN LET def == findDefinitionByModel(cat, model)
                    IN  IF def.found
                        THEN {Ret(0, d) : d \in deviceOf(typeOrR, def.def)}
                        ELSE {Throw(0, "No definition found")}
               ELSE IF definitionsFor(cat, typeOrR) = {}
                    THEN {Throw(0, "Cannot pick from an empty array")}
                    ELSE UNION {{Ret(0, d) : d \in deviceOf(typeOrR, def)} :
                                  def \in definitionsFor(cat, typeOrR)} :
                 typeOrR \in typeOrRs}

ModelNames == UNION {[1..n -> Chars] : n \in 0..MaxModelLen}

InitModel ==
    /\ callFn = "device"
    /\ callArgs \in [catalog : LabelCatalogs, type : deviceType \cup {"undefined"},
                     model : ModelNames]
    /\ callRes = NoCall
    /\ RngIdle
    /\ RelIdle
    /\ FakerIdle

DeviceCall ==
    /\ callFn = "device"
    /\ callRes = NoCall
    /\ callRes' \in deviceWithModel(callArgs.catalog, callArgs.type, callArgs.model)
    /\ UNCHANGED <<callFn, callArgs, rngVars, relVars, fakerVars>>

NextModel == DeviceCall

SpecModel == InitModel /\ [][NextModel]_vars

\* Two characters are the same letter or the same digit
SameIgnoringCase(c, d) ==
    \/ c = d
    \/ {c, d} = {"A", "a"}
    \/ {c, d} = {"B", "b"}

\* Two names are equal when case is ignored
EqualsIgnoringCase(a, b) ==
    /\ Len(a) = Len(b)
    /\ \A n \in 1..Len(a) : SameIgnoringCase(a[n], b[n])

\* The names a catalog record answers to
NamesOf(d) ==
    {d.model} \cup (IF d.whiteLabel.has
                    THEN {d.whiteLabel.list[n].model : n \in 1..Len(d.whiteLabel.list)}
                    ELSE {})

MatchingRecords(cat, model) ==
    {n \in 1..Len(cat) : \E name \in NamesOf(cat[n]) : EqualsIgnoringCase(name, model)}

\* C19: device(type, model) with a non-empty model returns a device iff a
\* catalog record's model or white-label model equals it ignoring case, and
\* throws otherwise; the device has the model and vendor of the first such
\* record of the catalog
C19_ForcedModelFirstMatch ==
    callFn = "device" /\ callRes # NoCall /\ callArgs.model # <<>> =>
        LET matching == MatchingRecords(callArgs.catalog, callArgs.model)
        IN  /\ callRes.ok <=> matching # {}
            /\ ~callRes.ok => callRes.v = "No definition found"
            /\ callRes.ok =>
                 \E n \in matching :
                    /\ \A m \in matching : n <= m
                    /\ callRes.v.model_id = callArgs.catalog[n].model
                    /\ callRes.v.manufacturer = callArgs.catalog[n].vendor

\* device(type, "b2") returned a device of the second record, which has the
\* white-label model "B2", although the third record's own model is "b2"
C19_Witness ==
    /\ callFn = "device"
    /\ callArgs.catalog = LabelCatalog
    /\ callArgs.model = <<"b", "2">>
    /\ callRes.ok
    /\ callRes.v.model_id = <<"B", "1">>
    /\ callRes.v.manufacturer = "V2"

(***************************************************************************)
(* SpecPick: successive Rng.pick calls on one generator.  callRes holds    *)
(* the generator's closure variable t and, for every call made, its array, *)
(* its outcome and t before and after it.                                  *)
(***************************************************************************)
MaxPicks == 3

\* The arrays picked from: the empty one and the beginnings of PickPool
PickArrays == {SubSeq(PickPool, 1, n) : n \in 0..Len(PickPool)}

\* new Rng(seed)
InitPick ==
    /\ callFn = "pick"
    /\ callArgs \in [seed : Seeds]
    /\ callRes = [t |-> mulberry32(callArgs.seed), out |-> <<>>]
    /\ RngIdle
    /\ RelIdle
    /\ FakerIdle

PickCall ==
    /\ callFn = "pick"
    /\ Len(callRes.out) < MaxPicks
    /\ \E arr \in PickArrays :
         LET res == Rng_pick(callRes.t, arr)
         IN  callRes' = [t |-> res.t,
                         out |-> Append(callRes.out,
                                        [arr |-> arr, ok |-> res.ok, v |-> res.v,
                                         before |-> callRes.t, after |-> res.t])]
    /\ UNCHANGED <<callFn, callArgs, rngVars, relVars, fakerVars>>

NextPick == PickCall

SpecPick == InitPick /\ [][NextPick]_vars

\* C20: pick returns a member of a non-empty array; on an empty array it
\* throws and leaves the state of the stream as it was
C20_PickMemberOrThrowWithoutDraw ==
    callFn = "pick" =>
        \A n \in 1..Len(callRes.out) :
            LET call == callRes.out[n]
            IN  IF Len(call.arr) > 0
                THEN call.ok /\ call.v \in Elements(call.arr)
                ELSE /\ ~call.ok
                     /\ call.v = "Cannot pick from an empty array"
                     /\ call.after = call.before

\* After a pick that drew from the stream, a pick from the empty array threw,
\* and the pick that followed started from the state the first one left
C20_Witness ==
    /\ callFn = "pick"
    /\ Len(callRes.out) = 3
    /\ callRes.out[1].ok
    /\ callRes.out[1].after # callRes.out[1].before
    /\ callRes.out[2].arr = <<>>
    /\ ~callRes.out[2].ok
    /\ callRes.out[3].ok
    /\ callRes.out[3].before = callRes.out[1].after
    /\ callRes.out[3].v # callRes.out[1].v

(***************************************************************************)
(* SpecIeee: the addresses of the devices of one snapshot, drawn from the  *)
(* 32-bit generator.  Between two addresses the snapshot makes other draws *)
(* (types, definitions, network addresses, endpoints); each is one or more *)
(* calls of next().  callRes holds the closure variable t, the addresses   *)
(* drawn so far in the order of the device list, and the count of the      *)
(* other draws.                                                            *)
(***************************************************************************)
MaxAddresses == 3

MaxOtherDraws == 3

\* eui64 reading its digits without advancing the stream
eui64_sameStream(t) ==
    LET h == Rng_hex(t, 16)
    IN  [t |-> t, v |-> <<"0", "x">> \o h.v]

\* eui64(r): `0x${r.hex(16)}`
eui64(t) ==
    LET h == Rng_hex(t, 16)
    IN  [t |-> h.t, v |-> <<"0", "x">> \o h.v]

\* devMap / devicesObj: the keys of the object after the loop over the devices
addressKeys(addresses) == {addresses[n] : n \in 1..Len(addresses)}

\* new Zigbee2MQTTAPIFaker(seed)
InitIeee ==
    /\ callFn = "snapshot"
    /\ callArgs \in [seed : Seeds]
    /\ callRes = [t |-> mulberry32(callArgs.seed), ieee_address |-> <<>>, others |-> 0]
    /\ RngIdle
    /\ RelIdle
    /\ FakerIdle

\* coordinator() or device() reaches its ieee_address
Eui64 ==
    /\ callFn = "snapshot"
    /\ Len(callRes.ieee_address) < MaxAddresses
    /\ LET a == eui64(callRes.t)
       IN  callRes' = [callRes EXCEPT !.t = a.t,
                                      !.ieee_address = Append(@, a.v)]
    /\ UNCHANGED <<callFn, callArgs, rngVars, relVars, fakerVars>>

\* Any other draw of the snapshot: one call of next()
OtherDraw ==
    /\ callFn = "snapshot"
    /\ callRes.others < MaxOtherDraws
    /\ callRes' = [callRes EXCEPT !.t = next(callRes.t).t, !.others = @ + 1]
    /\ UNCHANGED <<callFn, callArgs, rngVars, relVars, fakerVars>>

NextIeee ==
    \/ Eui64
    \/ OtherDraw

SpecIeee == InitIeee /\ [][NextIeee]_vars

W24 == 2 ^ 24

\* The number a * 2^32 + b * 2^16 + c of the 16-bit limbs <<a, b, c>>
WideOf(limbs) ==
    <<limbs[1] * 256 + limbs[2] \div 256, (limbs[2] % 256) * W16 + limbs[3]>>

\* w + m for a small integer m of either sign
WideAdd(w, m) ==
    LET r == w[2] + m
    IN  <<w[1] + r \div W24, r % W24>>

\* a <= b
WideLeq(a, b) == a[1] < b[1] \/ (a[1] = b[1] /\ a[2] <= b[2])

\* Math.floor(x * span) for x = k / 2^32 and span = e * 2^(16 * h)
FloorOfProduct(k, e, h) ==
    LET m == MulShift(k, e)
    IN  WideOf(CASE h = 0 -> <<0, 0, m.int>>
                 [] h = 1 -> <<0, m.int, Hi(m.frac)>>
                 [] OTHER -> <<m.int, Hi(m.frac), Lo(m.frac)>>)

\* Rng.int without the addition of min
intOfOutput_fromZero(k, min, e, h) == FloorOfProduct(k, e, h)

\* Rng.int(min, max) when next() returns k / 2^32:
\* Math.floor(next() * (max - min + 1)) + min
intOfOutput(k, min, e, h) == WideAdd(FloorOfProduct(k, e, h), min)

\* max, from min and the span: min + e * 2^(16 * h) - 1
MaxOfSpan(min, e, h) ==
    WideAdd(WideOf(CASE h = 0 -> <<0, 0, e>> [] h = 1 -> <<0, e, 0>> [] OTHER -> <<e, 0, 0>>),
            min - 1)

\* Outputs of the stream: the least, the greatest, and some in between
Outputs ==
    {U32(0, 0), U32(0, 1), U32(32768, 0), U32(43690, 21845), U32(65535, 65534),
     U32(65535, 65535)}

IntMins == {-3, 0, 7}

SpanFactors == {1, 2, 3, 255, 65535}

SpanShifts == {0, 1, 2}

InitInt ==
    /\ callFn = "int"
    /\ callArgs \in [k : Outputs, min : IntMins, e : SpanFactors, h : SpanShifts]
    /\ callRes = NoCall
    /\ RngIdle
    /\ RelIdle
    /\ FakerIdle

IntCall ==
    /\ callFn = "int"
    /\ callRes = NoCall
    /\ callRes' = Ret(1, intOfOutput(callArgs.k, callArgs.min, callArgs.e, callArgs.h))
    /\ UNCHANGED <<callFn, callArgs, rngVars, relVars, fakerVars>>

NextInt == IntCall

SpecInt == InitInt /\ [][NextInt]_vars

IntCalled == callFn = "int" /\ callRes # NoCall

\* The span is at most 2^32
SpanWithinOutputs == callArgs.h < 2 \/ callArgs.e = 1

\* min <= n <= max, n = min on the least output of the stream and n = max on
\* the greatest.  The result does not decrease as the output grows, so a bound
\* is attainable exactly when it is attained on that output
IntWithinAttainableBounds ==
    LET n == callRes.v
        min == WideAdd(<<0, 0>>, callArgs.min)
        max == MaxOfSpan(callArgs.min, callArgs.e, callArgs.h)
    IN  /\ WideLeq(min, n)
        /\ WideLeq(n, max)
        /\ callArgs.k = U32(0, 0) => n = min
        /\ callArgs.k = U32(65535, 65535) => n = max

\* C21 as stated: for all integers min <= max, Rng.int returns an integer in
\* [min, max], and both bounds are attainable
C21_IntWithinBoundsBothAttainable ==
    IntCalled => IntWithinAttainableBounds

\* C21: for integers min <= max with at most 2^32 values from min to max,
\* Rng.int returns an integer in [min, max], and both bounds are attainable
C21_IntWithinBoundsAttainableUpTo32Bits ==
    IntCalled /\ SpanWithinOutputs => IntWithinAttainableBounds

\* int(-3, 2^32 - 4) on the greatest output of the stream returned 2^32 - 4
C21_Witness ==
    /\ IntCalled
    /\ callArgs.k = U32(65535, 65535)
    /\ callArgs.min = -3
    /\ callArgs.e = 1
    /\ callArgs.h = 2
    /\ callRes.v = <<255, W24 - 4>>

(***************************************************************************)
(* SpecPanId: extendedPanIdToArray and extendedPanIdFromArray.  A string   *)
(* is the sequence of its characters.                                      *)
(***************************************************************************)
\* The value of a lowercase hex digit
HexValue(c) == CHOOSE n \in 0..15 : HexDigits[n + 1] = c

\* Buffer.from(str, "hex"): one byte for every two digits
BufferFromHex(str) ==
    [n \in 1..(Len(str) \div 2) |-> 16 * HexValue(str[2 * n - 1]) + HexValue(str[2 * n])]

\* buf.toString("hex"): two lowercase digits for every byte
BufferToHex(buf) ==
    [n \in 1..(2 * Len(buf)) |->
        IF n % 2 = 1 THEN HexDigits[(buf[(n + 1) \div 2] \div 16) + 1]
        ELSE HexDigits[(buf[n \div 2] % 16) + 1]]

\* buf.reverse()
BufferReverse(buf) == [n \in 1..Len(buf) |-> buf[Len(buf) + 1 - n]]

\* extendedPanIdToArray without the reversal
extendedPanIdToArray_bigEndian(src) == BufferFromHex(SubSeq(src, 3, Len(src)))

\* extendedPanIdToArray(src): Array.from(Buffer.from(src.slice(2), "hex").reverse())
extendedPanIdToArray(src) == BufferReverse(BufferFromHex(SubSeq(src, 3, Len(src))))

\* extendedPanIdFromArray(src): `0x${Buffer.from(src).reverse().toString("hex")}`
extendedPanIdFromArray(src) == <<"0", "x">> \o BufferToHex(BufferReverse(src))

\* The pairs of digits an extended PAN id is made of here
PanIdBytes == {<<"0", "0">>, <<"a", "0">>, <<"3", "2">>, <<"f", "f">>}

\* "0x" and the digits of the eight pairs
PanIdOf(pairs) ==
    <<"0", "x">> \o [n \in 1..16 |-> pairs[(n + 1) \div 2][IF n % 2 = 1 THEN 1 ELSE 2]]

\* extendedPanId(new Rng(1)), the string of the tests
PanIdOfSeed1 ==
    <<"0", "x", "a", "0", "8", "f", "f", "4", "9", "b", "6", "f", "7", "7", "2", "6", "3", "2">>

InitPanId ==
    /\ callFn = "extendedPanId"
    /\ callArgs \in {PanIdOf(pairs) : pairs \in [1..8 -> PanIdBytes]} \cup {PanIdOfSeed1}
    /\ callRes = NoCall
    /\ RngIdle
    /\ RelIdle
    /\ FakerIdle

\* extendedPanIdFromArray(extendedPanIdToArray(s))
PanIdRoundTrip ==
    /\ callFn = "extendedPanId"
    /\ callRes = NoCall
    /\ LET arrayFormat == extendedPanIdToArray(callArgs)
       IN  callRes' = Ret(0, [arrayFormat |-> arrayFormat,
                              stringFormat |-> extendedPanIdFromArray(arrayFormat)])
    /\ UNCHANGED <<callFn, callArgs, rngVars, relVars, fakerVars>>

NextPanId == PanIdRoundTrip

SpecPanId == InitPanId /\ [][NextPanId]_vars

\* C22: the string made from the array made from s is s, and the array is
\* the 8 bytes of s, last byte first
C22_PanIdRoundTripLittleEndian ==
    callFn = "extendedPanId" /\ callRes # NoCall =>
        /\ callRes.v.stringFormat = callArgs
        /\ Len(callRes.v.arrayFormat) = 8
        /\ \A n \in 1..8 :
              callRes.v.arrayFormat[n] =
                16 * HexValue(callArgs[2 + 2 * (8 - n) + 1]) + HexValue(callArgs[2 + 2 * (8 - n) + 2])

\* The string of seed 1 gave the array and the string the tests expect
C22_Witness ==
    /\ callFn = "extendedPanId"
    /\ callArgs = PanIdOfSeed1
    /\ callRes # NoCall
    /\ callRes.v.arrayFormat = <<50, 38, 119, 111, 155, 244, 143, 160>>
    /\ callRes.v.stringFormat = PanIdOfSeed1

\* C23: every link of a network map has linkquality in 30..255 and depth in
\* 1..3, and its legacy fields repeat the primary ones
C23_LinkRangesAndLegacyFields ==
    \A n \in 1..Len(links) :
        LET l == links[n]
        IN  /\ l.linkquality \in 30..255
            /\ l.depth \in 1..3
            /\ l.lqi = l.linkquality
            /\ l.sourceIeeeAddr = l.source.ieeeAddr
            /\ l.targetIeeeAddr = l.target.ieeeAddr
            /\ l.sourceNwkAddr = l.source.networkAddress

\* A map was returned with a link of the greatest quality and depth between
\* two nodes of different addresses
C23_Witness ==
    /\ pc = "done"
    /\ Len(links) > 0
    /\ links[1].linkquality = 255
    /\ links[1].depth = 3
    /\ links[1].lqi = 255
    /\ links[1].targetIeeeAddr # links[1].sourceIeeeAddr

\* The place in the order of C24 of the statement the faker is at: every
\* action makes the draws of the statement it starts from
SnapshotPhase(at) ==
    CASE at = "coordinator" -> 1
      [] at = "devices" -> 2
      [] at \in {"groups", "group"} -> 3
      [] at = "bridgeState" -> 4
      [] at = "bridgeInfo" -> 5
      [] at = "bridgeHealth" -> 6
      [] at = "bridgeConverters" -> 7
      [] at = "bridgeExtensions" -> 8
      [] at \in {"networkMap", "for_i", "for_j", "while", "return"} -> 9
      [] OTHER -> 10

NodeCounts == {1, 2, 5, 49, 50, 51}

InitLinks ==
    /\ callFn = "networkMap"
    /\ callArgs \in [length : NodeCounts]
    /\ callRes = [i |-> 0, j |-> 0, fromA |-> 0, lastSource |-> -1]
    /\ RngIdle
    /\ RelIdle
    /\ FakerIdle

\* i < nodes.length - 1 and j < this.r.int(0, ...): a link from nodes[i] is
\* pushed, j++
LinksPush ==
    /\ callFn = "networkMap"
    /\ callRes.i < callArgs.length - 1
    /\ \E count \in 0..maxLinksPerNode(callArgs.length) : callRes.j < count
    /\ callRes' = [callRes EXCEPT !.j = @ + 1, !.fromA = @ + 1, !.lastSource = callRes.i]
    /\ UNCHANGED <<callFn, callArgs, rngVars, relVars, fakerVars>>

\* i < nodes.length - 1 and j < this.r.int(0, ...) fails: i++
LinksNextSource ==
    /\ callFn = "networkMap"
    /\ callRes.i < callArgs.length - 1
    /\ \E count \in 0..maxLinksPerNode(callArgs.length) : ~(callRes.j < count)
    /\ callRes' = [callRes EXCEPT !.i = @ + 1, !.j = 0, !.fromA = 0]
    /\ UNCHANGED <<callFn, callArgs, rngVars, relVars, fakerVars>>

NextLinks ==
    \/ LinksPush
    \/ LinksNextSource

SpecLinks == InitLinks /\ [][NextLinks]_vars

\* C25: a node is the source of at most 3 links when there are fewer than
\* 50 nodes and of at most 6 otherwise, and the last node of the list is the
\* source of none
C25_AtMostKLinksPerSourceNoneFromLast ==
    callFn = "networkMap" =>
        /\ callRes.fromA <= (IF callArgs.length < 50 THEN 3 ELSE 6)
        /\ callRes.lastSource < callArgs.length - 1

\* In a list of 50 nodes the last node but one is the source of 6 links
C25_Witness ==
    /\ callFn = "networkMap"
    /\ callArgs.length = 50
    /\ callRes.i = 48
    /\ callRes.fromA = 6
    /\ callRes.lastSource = 48

\* The errors of relationshipByType
InvalidRelationshipErrors ==
    {"Cannot have a relationship EndDevice<>EndDevice",
     "Cannot have a relationship Coordinator<>Coordinator"}

\* C26: the network map of a snapshot never calls relationshipByType on
\* (Coordinator, Coordinator) or (EndDevice, EndDevice) and never fails with
\* its error; no generated device has the type Coordinator
C26_NoInvalidRelationshipCall ==
    /\ Called => ~InvalidPair(relA, relB) /\ relRes.ok
    /\ pc = "thrown" => result.error \notin InvalidRelationshipErrors
    /\ \A k \in 1..Len(devices) : devices[k].type # "Coordinator"

\* With two EndDevice nodes in the map, relationshipByType was called for a
\* link from an EndDevice, on the coordinator, and the map was returned
C26_Witness ==
    /\ pc = "done"
    /\ Len(nodes) = 3
    /\ nodes[2].type = "EndDevice"
    /\ nodes[3].type = "EndDevice"
    /\ Called
    /\ relA = "EndDevice"
    /\ relB = "Coordinator"
    /\ Len(links) = MaxLinks

(***************************************************************************)
(* SpecEndpoint: the cluster lists of endpoint(r, id, ...).  Clusters is   *)
(* the cluster table of zigbee-herdsman, here eight of its entries: six    *)
(* standard clusters, greenPower, and a manufacturer-specific one.         *)
(***************************************************************************)
Clusters ==
    <<[name |-> "genBasic", ID |-> 0], [name |-> "genPowerCfg", ID |-> 1],
      [name |-> "genIdentify", ID |-> 3], [name |-> "genOnOff", ID |-> 6],
      [name |-> "genLevelCtrl", ID |-> 8], [name |-> "genTime", ID |-> 10],
      [name |-> "greenPower", ID |-> 33], [name |-> "manuSpecificLumi", ID |-> 64704]>>

\* 0xfc00, where the manufacturer-specific cluster ids start
ManuSpecificStart == 64512

\* clusterName(r): the names it can return, those on which its loop ends
clusterName ==
    {c.name : c \in {x \in Elements(Clusters) :
                       ~(x.ID >= ManuSpecificStart \/ x.name = "greenPower")}}

\* Set.prototype.add as a push
SetAdd_push(set, x) == Append(set, x)

\* Set.prototype.add, the set being the sequence of its elements in the order
\* of their insertion
SetAdd(set, x) == IF x \in Elements(set) THEN set ELSE Append(set, x)

RECURSIVE AddClusters(_, _)
\* for (let i = 0; i < count; i++) set.add(clusterName(r)), from each of the
\* sets given: the sets the loop can end with
AddClusters(sets, count) ==
    IF count = 0 THEN sets
    ELSE AddClusters({SetAdd(set, c) : set \in sets, c \in clusterName}, count - 1)

\* The ids endpoint() is called with: the coordinator's two and another
EndpointIds == {HA_ENDPOINT, GP_ENDPOINT, 254}

InitEndpoint ==
    /\ callFn = "endpoint.clusters"
    /\ callArgs \in [id : EndpointIds]
    /\ callRes = NoCall
    /\ RngIdle
    /\ RelIdle
    /\ FakerIdle

\* endpoint(r, id): clusters: { input: Array.from(input), output: Array.from(output) }
EndpointClusters ==
    /\ callFn = "endpoint.clusters"
    /\ callRes = NoCall
    /\ LET gp == callArgs.id = GP_ENDPOINT
           input0 == IF gp THEN SetAdd(<<>>, "greenPower") ELSE SetAdd(<<>>, "genBasic")
           output0 == IF gp THEN SetAdd(<<>>, "greenPower") ELSE <<>>
       IN  \E inCount \in 1..5, outCount \in 0..3 :
              \E input \in AddClusters({input0}, inCount) :
                 \E output \in AddClusters({output0}, outCount) :
                    callRes' = Ret(0, [input |-> input, output |-> output])
    /\ UNCHANGED <<callFn, callArgs, rngVars, relVars, fakerVars>>

NextEndpoint == EndpointClusters

SpecEndpoint == InitEndpoint /\ [][NextEndpoint]_vars

NoDuplicates(seq) == \A m, n \in 1..Len(seq) : m # n => seq[m] # seq[n]

\* C27: the cluster lists of an endpoint have no duplicates; those of the
\* green-power endpoint both have greenPower; on another endpoint the input
\* list has genBasic and no list has greenPower; the input list has 1 to 6
\* entries, the output list at most 3, or 4 on the green-power endpoint
C27_EndpointClusterLists ==
    callFn = "endpoint.clusters" /\ callRes # NoCall =>
        LET input == callRes.v.input
            output == callRes.v.output
        IN  /\ NoDuplicates(input)
            /\ NoDuplicates(output)
            /\ IF callArgs.id = 242
               THEN "greenPower" \in Elements(input) /\ "greenPower" \in Elements(output)
               ELSE /\ "genBasic" \in Elements(input)
                    /\ "greenPower" \notin Elements(input)
                    /\ "greenPower" \notin Elements(output)
            /\ Len(input) \in 1..6
            /\ Len(output) <= (IF callArgs.id = 242 THEN 4 ELSE 3)

\* The green-power endpoint got six input clusters and four output clusters
C27_Witness ==
    /\ callFn = "endpoint.clusters"
    /\ callRes # NoCall
    /\ callArgs.id = GP_ENDPOINT
    /\ Len(callRes.v.input) = 6
    /\ Len(callRes.v.output) = 4
    /\ callRes.v.input[1] = "greenPower"

(***************************************************************************)
(* SpecEndpoints: coordinator(), or device() on a definition whose         *)
(* endpoint resolver is absent, returns an empty map, or returns a map of  *)
(* two endpoints; then the endpoint pick of group() on the device.         *)
(***************************************************************************)
ResolverDefinitions ==
    {[model |-> "M1", vendor |-> "V1", gp |-> FALSE, endpoint |-> NoResolver],
     [model |-> "M2", vendor |-> "V1", gp |-> FALSE, endpoint |-> Resolver(<<>>)],
     [model |-> "M3", vendor |-> "V1", gp |-> FALSE,
      endpoint |-> Resolver([l1 |-> 1, l2 |-> 2])]}

InitEndpoints ==
    /\ callFn \in {"coordinator", "device"}
    /\ callArgs \in [type : deviceType, def : ResolverDefinitions]
    /\ callRes = [device |-> NoDevice, member |-> NoCall]
    /\ RngIdle
    /\ RelIdle
    /\ FakerIdle

\* coordinator() or device(type) on the definition
GenerateDevice ==
    /\ callFn \in {"coordinator", "device"}
    /\ callRes.device = NoDevice
    /\ \E d \in (IF callFn = "coordinator" THEN coordinatorDevices
                ELSE deviceOf(callArgs.type, callArgs.def)) :
         callRes' = [callRes EXCEPT !.device = d]
    /\ UNCHANGED <<callFn, callArgs, rngVars, relVars, fakerVars>>

\* group(): the member record of the device
MemberRecord ==
    /\ callFn \in {"coordinator", "device"}
    /\ callRes.device # NoDevice
    /\ callRes.member = NoCall
    /\ \E m \in memberOf(callRes.device) :
         callRes' = [callRes EXCEPT !.member = [ok |-> m.ok, v |-> m.v, r |-> 1]]
    /\ UNCHANGED <<callFn, callArgs, rngVars, relVars, fakerVars>>

NextEndpoints ==
    \/ GenerateDevice
    \/ MemberRecord

SpecEndpoints == InitEndpoints /\ [][NextEndpoints]_vars

\* C28: a device or coordinator has at least one endpoint whatever the
\* endpoint resolver of its definition returns, and the endpoint pick of a
\* group member does not throw
C28_AtLeastOneEndpoint ==
    callFn \in {"coordinator", "device"} =>
        /\ callRes.device # NoDevice => callRes.device.endpoints # {}
        /\ callRes.member # NoCall =>
              /\ callRes.member.ok
              /\ callRes.member.v.endpoint \in callRes.device.endpoints

\* A device whose resolver returned an empty map got an endpoint, which was
\* picked for its member record
C28_Witness ==
    /\ callFn = "device"
    /\ callArgs.def.endpoint = Resolver(<<>>)
    /\ callRes.device # NoDevice
    /\ callRes.member # NoCall
    /\ callRes.member.ok
    /\ callRes.member.v.endpoint = 254

(***************************************************************************)
(* SpecUpdate: the update object of entityState(device, partial,           *)
(* overrides).  The values written from the exposes are left out; the      *)
(* overrides are none, or an update object of the caller's.                *)
(***************************************************************************)
NoValue == [defined |-> FALSE]

ValueOf(v) == [defined |-> TRUE, v |-> v]

NoUpdate == [emitted |-> FALSE]

\* r.int(1, 249_999_999): both ends and two values between
InstalledDraws == {1, 2, 125000000, 249999999}

\* r.int(installedVersion, 250_000_000): both ends and the value next to the
\* low end
LatestDraws(installedVersion) == {installedVersion, installedVersion + 1, 250000000}

\* r.int(0, 100): both ends and a value between
ProgressDraws == {0, 50, 100}

\* otaState(r, available) picking among the four states in all cases
otaState_withIdle(available) == {"updating", "idle", "available", "scheduled"}

\* otaState(r, available): the states it can pick
otaState(available) ==
    IF available THEN {"updating", "available", "scheduled"}
    ELSE {"updating", "idle", "available", "scheduled"}

\* base.update of entityState for the definition: the objects it can be
baseUpdate(definition) ==
    IF ~definition.has THEN {NoUpdate}
    ELSE (IF definition.supports_ota
          THEN UNION {UNION {{[emitted |-> TRUE,
                               progress |-> IF updateState = "updating"
                                            THEN ValueOf(progress) ELSE NoValue,
                               remaining |-> IF updateState = "updating"
                                             THEN ValueOf(remaining) ELSE NoValue,
                               state |-> updateState,
                               installed_version |-> installedVersion,
                               latest_version |-> latestVersion] :
                                 updateState \in (IF installedVersion = latestVersion
                                                   THEN {"idle"}
                                                   ELSE otaState(latestVersion > installedVersion)),
                                 progress \in ProgressDraws,
                                 remaining \in IntDraws(1, 1800)} :
                              latestVersion \in {installedVersion}
                                                 \cup LatestDraws(installedVersion)} :
                        installedVersion \in InstalledDraws}
          ELSE {})
         \cup {NoUpdate}

\* An update object a caller passes in overrides
CallerUpdate ==
    [emitted |-> TRUE, progress |-> ValueOf(50), remaining |-> NoValue, state |-> "idle",
     installed_version |-> 2, latest_version |-> 1]

\* { last_seen, ...base, ...overrides }: the update of the result
entityStateUpdate(definition, overrides) ==
    {IF overrides.update.emitted THEN overrides.update ELSE base :
       base \in baseUpdate(definition)}

InitUpdate ==
    /\ callFn = "entityState"
    /\ callArgs \in [definition : [has : BOOLEAN, supports_ota : BOOLEAN], partial : BOOLEAN,
                     overrides : [update : {NoUpdate, CallerUpdate}]]
    /\ callRes = NoCall
    /\ RngIdle
    /\ RelIdle
    /\ FakerIdle

EntityState ==
    /\ callFn = "entityState"
    /\ callRes = NoCall
    /\ \E update \in entityStateUpdate(callArgs.definition, callArgs.overrides) :
         callRes' = Ret(1, [update |-> update])
    /\ UNCHANGED <<callFn, callArgs, rngVars, relVars, fakerVars>>

NextUpdate == EntityState

SpecUpdate == InitUpdate /\ [][NextUpdate]_vars

\* The update object of the result is consistent and the definition
\* supports OTA
UpdateConsistent ==
    LET update == callRes.v.update
    IN  update.emitted =>
          /\ update.latest_version >= update.installed_version
          /\ update.state = "idle" <=> update.latest_version = update.installed_version
          /\ update.progress.defined <=> update.state = "updating"
          /\ update.remaining.defined <=> update.state = "updating"
          /\ callArgs.definition.has
          /\ callArgs.definition.supports_ota

\* C29 as stated: whenever the result of entityState has an update object, it
\* is consistent and the definition of the device supports OTA
C29_EmittedUpdateConsistent ==
    callFn = "entityState" /\ callRes # NoCall => UpdateConsistent

\* C29: whenever the result of entityState has an update object and the
\* overrides have none, it is consistent and the definition supports OTA
C29_GeneratedUpdateConsistent ==
    callFn = "entityState" /\ callRes # NoCall /\ ~callArgs.overrides.update.emitted
        => UpdateConsistent

\* Without overrides, an update object was generated with a newer latest
\* version and the state updating
C29_Witness ==
    /\ callFn = "entityState"
    /\ callRes # NoCall
    /\ ~callArgs.overrides.update.emitted
    /\ callRes.v.update.emitted
    /\ callRes.v.update.state = "updating"
    /\ callRes.v.update.latest_version = 250000000
    /\ callRes.v.update.installed_version = 1
    /\ callRes.v.update.progress = ValueOf(100)

\* The addresses of the members of a group, in order
MemberAddresses(g) == [k \in 1..Len(g.members) |-> g.members[k].ieee_address]

IsPrefix(a, b) == Len(a) <= Len(b) /\ \A k \in 1..Len(a) : a[k] = b[k]

\* C30: the members of every group of a groups() call are, in order, the
\* first devices of one list of candidates without repetitions (each with an
\* endpoint picked for the group), so of two groups the members of one begin
\* the members of the other; a group has at most max(0, |candidates| - 2)
\* members
C30_GroupMembersArePrefixes ==
    /\ NoDuplicates(uniqueGroupMembers)
    /\ \A k \in 1..Len(uniqueGroupMembers) : uniqueGroupMembers[k] \in 1..Len(devices)
    /\ \A g \in 1..Len(groups) :
          /\ IsPrefix(MemberAddresses(groups[g]),
                      [k \in 1..Len(uniqueGroupMembers) |->
                          devices[uniqueGroupMembers[k]].ieee_address])
          /\ Len(groups[g].members) <= Max(0, Len(devices) - 2)
    /\ \A g, h \in 1..Len(groups) :
          \/ IsPrefix(MemberAddresses(groups[g]), MemberAddresses(groups[h]))
          \/ IsPrefix(MemberAddresses(groups[h]), MemberAddresses(groups[g]))

\* With three candidates, two of them were drawn for the groups; one group
\* has the first of them as its member and the other group has no member
C30_Witness ==
    /\ Len(devices) = 3
    /\ Len(uniqueGroupMembers) = 2
    /\ Len(groups) = 2
    /\ Len(groups[1].members) = 1
    /\ Len(groups[2].members) = 0
    /\ groups[1].members[1].ieee_address = devices[uniqueGroupMembers[1]].ieee_address

====
